---- MODULE Spec2Model ----
(***************************************************************************)
(* Scene history (src/src/history.ts), z-order restacking                  *)
(* (src/src/zindex.ts) and the pointer/keyboard handlers of the App        *)
(* component (src/src/index.tsx) of the whiteboard editor.                 *)
(*                                                                         *)
(* JavaScript arrays are modelled as sequences; a JavaScript index i is    *)
(* position i + 1 of the sequence.                                         *)
(***************************************************************************)
EXTENDS Integers, Sequences, FiniteSets, TLC

VARIABLES
  recording,      \* SceneHistory.recording
  stateHistory,   \* SceneHistory.stateHistory (the undo stack), top = last
  redoStack,      \* SceneHistory.redoStack, top = last
  call,           \* the last call made on the history object or on zindex
  zElements,      \* zindex: the array handed to the restacking function
  zIndices,       \* zindex: indicesToMove as handed over (any order)
  zResult,        \* zindex: the array the last restacking call returned
  elements,       \* App: the module-level array of the scene's elements
  heap,           \* App: the element objects
  state,          \* App: this.state
  gesture,        \* App: the closure of the pointer gesture in progress
  scenario,       \* the undos, redos and edits observed by SpecC1; the
                  \* events of the gesture of SpecGesture and SpecMulti
  args,           \* the arguments of the function under study; what a
                  \* gesture started from
  result,         \* what the function under study returned
  clock,          \* the number of events dispatched
  globalSceneState, \* scene/globalScene: the exported GlobalScene object
  pointer         \* App: lastMouseUp, isPanning, isHoldingMouseButton and
                  \* isHoldingSpace of the module, the listeners the pointer
                  \* handlers have on the window, the gestures begun so far

vars == <<recording, stateHistory, redoStack, call, zElements, zIndices,
          zResult, elements, heap, state, gesture, scenario, args, result,
          clock, globalSceneState, pointer>>

(***************************************************************************)
(* Bounds of the model.                                                    *)
(***************************************************************************)
MaxStack == 3      \* entries pushed by SpecHistory while the undo stack is shorter
MaxLen == 5        \* longest array handed to the restacking functions

(***************************************************************************)
(* Values.  null and a returned value are both records, so that they can   *)
(* be compared.                                                            *)
(***************************************************************************)
Null == [isNull |-> TRUE]
Some(v) == [isNull |-> FALSE, value |-> v]

\* stateHistory[-1] of an empty array
Undefined == [undef |-> TRUE]

Last(s) == s[Len(s)]
Front(s) == SubSeq(s, 1, Len(s) - 1)
Range(s) == {s[k] : k \in 1..Len(s)}

(***************************************************************************)
(* JSON text.  A string is the document it was serialized from plus a flag *)
(* telling whether the text is cut short (malformed).  JSON.parse throws   *)
(* on a malformed text and on undefined.                                   *)
(***************************************************************************)
JSONstringify(doc) == [doc |-> doc, cut |-> FALSE]

Truncated(doc) == [doc |-> doc, cut |-> TRUE]

JSONparseThrows(text) == \/ "undef" \in DOMAIN text
                         \/ text.cut

JSONparse(text) == text.doc

(***************************************************************************)
(* SceneHistory, src/src/history.ts.  The methods are operators on the     *)
(* record h = [recording, stateHistory, redoStack] and return the new      *)
(* record, with the returned value where the method returns one.           *)
(***************************************************************************)
clearRedoStack(h) == [h EXCEPT !.redoStack = <<>>]

\* pushEntry without the comparison with the last entry
pushEntryAlways(h, newEntry) ==
  clearRedoStack([h EXCEPT !.stateHistory = Append(@, newEntry)])

\* pushEntry that does not invalidate the redo stack
pushEntryKeepsRedo(h, newEntry) ==
  IF Len(h.stateHistory) > 0 /\ Last(h.stateHistory) = newEntry
  THEN h
  ELSE [h EXCEPT !.stateHistory = Append(@, newEntry)]

pushEntry(h, newEntry) ==
  IF Len(h.stateHistory) > 0 /\ Last(h.stateHistory) = newEntry
  THEN h
  ELSE clearRedoStack([h EXCEPT !.stateHistory = Append(@, newEntry)])

restoreEntry(entry) ==
  IF JSONparseThrows(entry) THEN Null ELSE Some(JSONparse(entry))

\* redoOnce that does not push the entry back onto the undo stack
redoOnceNoPush(h) ==
  IF Len(h.redoStack) = 0
  THEN [h |-> h, ret |-> Null]
  ELSE [h |-> [h EXCEPT !.redoStack = Front(@)],
        ret |-> restoreEntry(Last(h.redoStack))]

redoOnce(h) ==
  IF Len(h.redoStack) = 0
  THEN [h |-> h, ret |-> Null]
  ELSE LET entryToRestore == Last(h.redoStack)
           popped == [h EXCEPT !.redoStack = Front(@)]
       IN [h |-> [popped EXCEPT !.stateHistory = Append(@, entryToRestore)],
           ret |-> restoreEntry(entryToRestore)]

\* undoOnce that restores the entry it has just removed
undoOnceReturnsRemoved(h) ==
  IF Len(h.stateHistory) = 0
  THEN [h |-> h, ret |-> Null]
  ELSE [h |-> [h EXCEPT !.stateHistory = Front(@),
                        !.redoStack = Append(@, Last(h.stateHistory))],
        ret |-> restoreEntry(Last(h.stateHistory))]

undoOnce(h) ==
  IF Len(h.stateHistory) = 0
  THEN [h |-> h, ret |-> Null]
  ELSE LET currentEntry == Last(h.stateHistory)
           popped == [h EXCEPT !.stateHistory = Front(@)]
           entryToRestore == IF Len(popped.stateHistory) = 0
                             THEN Undefined
                             ELSE Last(popped.stateHistory)
       IN [h |-> [popped EXCEPT !.redoStack = Append(@, currentEntry)],
           ret |-> restoreEntry(entryToRestore)]

skipRecording(h) == [h EXCEPT !.recording = FALSE]

resumeRecording(h) == [h EXCEPT !.recording = TRUE]

History == [recording |-> recording, stateHistory |-> stateHistory,
            redoStack |-> redoStack]

SetHistory(h) == /\ recording' = h.recording
                 /\ stateHistory' = h.stateHistory
                 /\ redoStack' = h.redoStack

(***************************************************************************)
(* Elements and the application state.  An element is a record; the cached *)
(* shape is the geometry it was generated from, <<width, height>>, or      *)
(* NoShape; an element read back from JSON has no shape key at all.        *)
(***************************************************************************)
With(r, f, v) == [k \in DOMAIN r \cup {f} |-> IF k = f THEN v ELSE r[k]]

Without(r, f) == [k \in DOMAIN r \ {f} |-> r[k]]

NoShape == <<>>

newElement(type, x, y, backgroundColor, id) ==
  [id |-> id, type |-> type, x |-> x, y |-> y, width |-> 0, height |-> 0,
   isSelected |-> FALSE, backgroundColor |-> backgroundColor,
   points |-> <<>>, shape |-> NoShape]

getDefaultAppState ==
  [draggingElement |-> 0, resizingElement |-> 0, multiElement |-> 0,
   editingElement |-> 0, elementType |-> "selection", elementLocked |-> FALSE,
   exportBackground |-> TRUE, currentItemStrokeColor |-> "#000000",
   currentItemBackgroundColor |-> "transparent",
   currentItemFillStyle |-> "hachure", currentItemStrokeWidth |-> 1,
   currentItemRoughness |-> 1, currentItemOpacity |-> 100,
   currentItemFont |-> "20px Virgil", viewBackgroundColor |-> "#ffffff",
   scrollX |-> 0, scrollY |-> 0, scrolledOutside |-> FALSE,
   name |-> "excalidraw"]

pickAppStatePropertiesForHistory(appState) ==
  [exportBackground |-> appState.exportBackground,
   currentItemStrokeColor |-> appState.currentItemStrokeColor,
   currentItemBackgroundColor |-> appState.currentItemBackgroundColor,
   currentItemFillStyle |-> appState.currentItemFillStyle,
   currentItemStrokeWidth |-> appState.currentItemStrokeWidth,
   currentItemRoughness |-> appState.currentItemRoughness,
   currentItemOpacity |-> appState.currentItemOpacity,
   currentItemFont |-> appState.currentItemFont,
   viewBackgroundColor |-> appState.viewBackgroundColor,
   name |-> appState.name]

\* elems: the element objects of the scene, in order
generateCurrentEntry(appState, elems) ==
  JSONstringify(
    [appState |-> appState,
     elements |-> [k \in 1..Len(elems) |->
                     With(Without(elems[k], "shape"), "isSelected", FALSE)]])

\* the closure of a gesture when no gesture is in progress
NoGesture ==
  [lastMouseUp |-> FALSE, originX |-> 0, originY |-> 0, lastX |-> 0,
   lastY |-> 0, hitElement |-> 0, draggingOccurred |-> FALSE,
   elementIsAddedToSelection |-> FALSE, resizeHandle |-> "none",
   isResizingElements |-> FALSE, resizeArrowFn |-> "none"]

appVars == <<elements, heap, state, gesture, scenario, clock>>

\* new GlobalScene(): the constructor's default argument and the field
\* initializers; removers are the callbacks addCallback returned a remover for
GlobalScene == [_elements |-> <<>>, nonDeletedElements |-> <<>>,
                callbacks |-> {}, removers |-> {}]

\* lastMouseUp = null
NoHandler == [fn |-> "null", gesture |-> 0]

\* the module-level variables as declared, no listener on the window
PointerIdle == [lastMouseUp |-> NoHandler, isPanning |-> FALSE,
                isHoldingMouseButton |-> FALSE, isHoldingSpace |-> FALSE,
                listeners |-> {}, gestures |-> 0]

fnVars == <<args, result, globalSceneState, pointer>>

\* no function under study
FnIdle == /\ args = <<>>
          /\ result = <<>>
          /\ globalSceneState = GlobalScene
          /\ pointer = PointerIdle

\* the App as constructed, for the specifications that do not run it
AppIdle == /\ elements = <<>>
           /\ heap = <<>>
           /\ state = getDefaultAppState
           /\ gesture = NoGesture
           /\ scenario = <<>>
           /\ clock = 0

(***************************************************************************)
(* SpecHistory: the history object on its own, from construction, under    *)
(* any sequence of calls.  pushEntry takes any string: the entries are the *)
(* snapshots of two small scenes and the same texts cut short.             *)
(***************************************************************************)
SampleRectangle ==
  [newElement("rectangle", 0, 0, "transparent", 1)
     EXCEPT !.width = 40, !.height = 40, !.shape = <<40, 40>>]

SampleDocs ==
  {JSONparse(generateCurrentEntry(
               pickAppStatePropertiesForHistory(getDefaultAppState), sc)) :
     sc \in {<<>>, <<SampleRectangle>>}}

Entries == {JSONstringify(d) : d \in SampleDocs}
             \cup {Truncated(d) : d \in SampleDocs}

\* call.pre is the history object as it was before the call
NoCall == [op |-> "none", ret |-> Null, arg |-> Undefined,
           pre |-> [recording |-> TRUE, stateHistory |-> <<>>,
                    redoStack |-> <<>>]]

ZIdle == /\ zElements = <<>>
         /\ zIndices = <<>>
         /\ zResult = <<>>

InitHistory == /\ recording = TRUE
               /\ stateHistory = <<>>
               /\ redoStack = <<>>
               /\ call = NoCall
               /\ ZIdle
               /\ AppIdle
               /\ FnIdle

PushEntry(e) ==
  /\ Len(stateHistory) < MaxStack
  /\ SetHistory(pushEntry(History, e))
  /\ call' = [op |-> "pushEntry", ret |-> Null, arg |-> e, pre |-> History]
  /\ UNCHANGED <<zElements, zIndices, zResult, appVars, fnVars>>

UndoOnce ==
  /\ SetHistory(undoOnce(History).h)
  /\ call' = [op |-> "undoOnce", ret |-> undoOnce(History).ret,
              arg |-> Undefined, pre |-> History]
  /\ UNCHANGED <<zElements, zIndices, zResult, appVars, fnVars>>

RedoOnce ==
  /\ SetHistory(redoOnce(History).h)
  /\ call' = [op |-> "redoOnce", ret |-> redoOnce(History).ret,
              arg |-> Undefined, pre |-> History]
  /\ UNCHANGED <<zElements, zIndices, zResult, appVars, fnVars>>

ClearRedoStack ==
  /\ SetHistory(clearRedoStack(History))
  /\ call' = [op |-> "clearRedoStack", ret |-> Null, arg |-> Undefined,
              pre |-> History]
  /\ UNCHANGED <<zElements, zIndices, zResult, appVars, fnVars>>

NextHistory == \/ \E e \in Entries : PushEntry(e)
               \/ UndoOnce
               \/ RedoOnce
               \/ ClearRedoStack

SpecHistory == InitHistory /\ [][NextHistory]_vars

Malformed(entry) == entry.cut

\* C2: undoOnce on a non-empty undo stack removes the top entry, pushes it
\* onto the redo stack and returns the deserialized entry that is then on top
\* of the undo stack; it returns null when the undo stack was empty or when
\* the removal leaves it empty.
C2_UndoOnce ==
  [][call'.op = "undoOnce" =>
       IF Len(stateHistory) = 0
       THEN call'.ret = Null
       ELSE /\ stateHistory' = Front(stateHistory)
            /\ redoStack' = Append(redoStack, Last(stateHistory))
            /\ IF Len(stateHistory) = 1
               THEN call'.ret = Null
               ELSE ~Malformed(Last(stateHistory')) =>
                      call'.ret = Some(Last(stateHistory').doc)]_vars

C2_Witness == /\ call.op = "undoOnce"
              /\ ~call.ret.isNull
              /\ Len(call.pre.stateHistory) > 1
              /\ call.ret.value = Last(stateHistory).doc
              /\ Last(redoStack).doc # Last(stateHistory).doc

\* C3: pushEntry(e) appends e to the undo stack exactly when the stack is
\* empty or its top differs from e; when e equals the top the undo stack is
\* left unchanged.
C3_PushEntry ==
  [][call'.op = "pushEntry" =>
       IF Len(stateHistory) = 0 \/ Last(stateHistory) # call'.arg
       THEN stateHistory' = Append(stateHistory, call'.arg)
       ELSE stateHistory' = stateHistory]_vars

C3_Witness == /\ call.op = "pushEntry"
              /\ Len(call.pre.stateHistory) > 0
              /\ Last(call.pre.stateHistory) = call.arg
              /\ stateHistory = call.pre.stateHistory

\* C4 as stated: after every call to pushEntry the redo stack is empty.
C4_Original == call.op = "pushEntry" => redoStack = <<>>

\* C4, amended: a call to pushEntry that appends its entry (the undo stack
\* was empty or its top differed) leaves the redo stack empty; a call with an
\* entry identical to the top of the undo stack leaves the redo stack as it
\* was.
C4_PushClearsRedo ==
  [][call'.op = "pushEntry" =>
       IF Len(stateHistory) = 0 \/ Last(stateHistory) # call'.arg
       THEN redoStack' = <<>>
       ELSE redoStack' = redoStack]_vars

C4_Witness == /\ call.op = "pushEntry"
              /\ call.pre.redoStack # <<>>
              /\ redoStack = <<>>
              /\ Len(stateHistory) = Len(call.pre.stateHistory) + 1

\* C5: if the entry an undo or redo step has to restore cannot be
\* deserialized, the step returns null and leaves the undo stack and the redo
\* stack exactly as they were before the call.
C5_Original ==
  [][/\ call'.op = "undoOnce" /\ Len(stateHistory) > 1
        /\ Malformed(Last(Front(stateHistory)))
          => call'.ret = Null /\ UNCHANGED <<stateHistory, redoStack>>
     /\ call'.op = "redoOnce" /\ Len(redoStack) > 0
        /\ Malformed(Last(redoStack))
          => call'.ret = Null /\ UNCHANGED <<stateHistory, redoStack>>]_vars

\* C6: redoOnce on a non-empty redo stack removes its top entry, pushes it
\* onto the undo stack and returns it deserialized; on an empty redo stack it
\* returns null and changes neither stack.
C6_RedoOnce ==
  [][call'.op = "redoOnce" =>
       IF Len(redoStack) = 0
       THEN call'.ret = Null /\ UNCHANGED <<stateHistory, redoStack>>
       ELSE /\ redoStack' = Front(redoStack)
            /\ stateHistory' = Append(stateHistory, Last(redoStack))
            /\ ~Malformed(Last(redoStack)) =>
                 call'.ret = Some(Last(redoStack).doc)]_vars

C6_Witness == /\ call.op = "redoOnce"
              /\ ~call.ret.isNull
              /\ Len(call.pre.redoStack) > 1
              /\ call.ret.value = Last(stateHistory).doc
              /\ Len(stateHistory) > 1

(***************************************************************************)
(* Z-order restacking, src/src/zindex.ts.  The functions work in place on  *)
(* the array they are given and return it; indicesToMove is sorted in      *)
(* place first.  Indices are JavaScript indices, 0 .. length - 1.          *)
(***************************************************************************)
RECURSIVE InsertAscending(_, _)
InsertAscending(sorted, x) ==
  IF sorted = <<>> THEN <<x>>
  ELSE IF x - Head(sorted) < 0 THEN <<x>> \o sorted
  ELSE <<Head(sorted)>> \o InsertAscending(Tail(sorted), x)

\* indicesToMove.sort((a, b) => a - b)
RECURSIVE SortAscending(_)
SortAscending(s) ==
  IF s = <<>> THEN <<>>
  ELSE InsertAscending(SortAscending(Tail(s)), Head(s))

RECURSIVE InsertDescending(_, _)
InsertDescending(sorted, x) ==
  IF sorted = <<>> THEN <<x>>
  ELSE IF Head(sorted) - x < 0 THEN <<x>> \o sorted
  ELSE <<Head(sorted)>> \o InsertDescending(Tail(sorted), x)

\* indicesToMove.sort((a, b) => b - a)
RECURSIVE SortDescending(_)
SortDescending(s) ==
  IF s = <<>> THEN <<>>
  ELSE InsertDescending(SortDescending(Tail(s)), Head(s))

\* elements[index]: undefined outside 0 .. length - 1
arrayGet(elems, index) ==
  IF index >= 0 /\ index < Len(elems) THEN elems[index + 1] ELSE Undefined

\* elements[index] = value: an index from length on extends the array, the
\* slots in between reading as undefined; a negative index is a property of
\* the object and no element of the array
arraySet(elems, index, value) ==
  IF index < 0 THEN elems
  ELSE [k \in 1..(IF index < Len(elems) THEN Len(elems) ELSE index + 1) |->
          IF k = index + 1 THEN value
          ELSE IF k <= Len(elems) THEN elems[k] ELSE Undefined]

swap(elems, indexA, indexB) ==
  LET element == arrayGet(elems, indexA)
  IN arraySet(arraySet(elems, indexA, arrayGet(elems, indexB)), indexB, element)

RECURSIVE moveOneLeftEach(_, _, _, _)
moveOneLeftEach(elems, sorted, i, isSorted) ==
  IF i >= Len(sorted) THEN elems
  ELSE LET index == sorted[i + 1]
           stillSorted == isSorted /\ index = i
       IN IF stillSorted
          THEN moveOneLeftEach(elems, sorted, i + 1, stillSorted)
          ELSE moveOneLeftEach(swap(elems, index - 1, index), sorted, i + 1,
                               stillSorted)

\* moveOneLeft that does not sort indicesToMove
moveOneLeftUnsorted(elems, indicesToMove) ==
  moveOneLeftEach(elems, indicesToMove, 0, TRUE)

\* moveOneLeft that also bubbles the selected elements already at the front
moveOneLeftBubblesFirst(elems, indicesToMove) ==
  moveOneLeftEach(elems, SortAscending(indicesToMove), 0, FALSE)

moveOneLeft(elems, indicesToMove) ==
  moveOneLeftEach(elems, SortAscending(indicesToMove), 0, TRUE)

RECURSIVE moveOneRightEach(_, _, _, _)
moveOneRightEach(elems, reversed, i, isSorted) ==
  IF i >= Len(reversed) THEN elems
  ELSE LET index == reversed[i + 1]
           stillSorted == isSorted /\ index = Len(elems) - i - 1
       IN IF stillSorted
          THEN moveOneRightEach(elems, reversed, i + 1, stillSorted)
          ELSE moveOneRightEach(swap(elems, index + 1, index), reversed, i + 1,
                                stillSorted)

\* moveOneRight that does not sort indicesToMove
moveOneRightUnsorted(elems, indicesToMove) ==
  moveOneRightEach(elems, indicesToMove, 0, TRUE)

\* moveOneRight that goes through the indices from left to right
moveOneRightAscending(elems, indicesToMove) ==
  moveOneRightEach(elems, SortAscending(indicesToMove), 0, TRUE)

moveOneRight(elems, indicesToMove) ==
  moveOneRightEach(elems, SortDescending(indicesToMove), 0, TRUE)

\* Array.prototype.reverse
Reverse(s) == [k \in 1..Len(s) |-> s[Len(s) + 1 - k]]

\* indicesToMove.map(index => elements[index])
elementsAt(elems, indices) ==
  [k \in 1..Len(indices) |-> arrayGet(elems, indices[k])]

\* for (pos = from; pos >= index; --pos) elements[pos + i] = elements[pos]
RECURSIVE moveAllLeftShift(_, _, _, _)
moveAllLeftShift(elems, pos, index, i) ==
  IF pos < index THEN elems
  ELSE moveAllLeftShift(arraySet(elems, pos + i, arrayGet(elems, pos)),
                        pos - 1, index, i)

\* reversedIndicesToMove.forEach((index, i) => ...), from position i on
RECURSIVE moveAllLeftEach(_, _, _)
moveAllLeftEach(elems, reversedIndicesToMove, i) ==
  IF i >= Len(reversedIndicesToMove) THEN elems
  ELSE IF i = 0 THEN moveAllLeftEach(elems, reversedIndicesToMove, i + 1)
  ELSE moveAllLeftEach(
         moveAllLeftShift(elems, reversedIndicesToMove[i] - 1,
                          reversedIndicesToMove[i + 1], i),
         reversedIndicesToMove, i + 1)

\* leftMostElements.forEach((element, i) => { elements[i] = element })
RECURSIVE fillLeft(_, _, _)
fillLeft(elems, leftMostElements, i) ==
  IF i >= Len(leftMostElements) THEN elems
  ELSE fillLeft(arraySet(elems, i, leftMostElements[i + 1]),
                leftMostElements, i + 1)

\* moveAllLeft that copies the elements to move after reversing the indices
moveAllLeftCopiesReversed(elems, indicesToMove) ==
  LET sorted == SortAscending(indicesToMove)
      reversedIndicesToMove == Reverse(sorted) \o <<0>>
      leftMostElements == elementsAt(elems, Reverse(sorted))
  IN fillLeft(moveAllLeftEach(elems, reversedIndicesToMove, 0),
              leftMostElements, 0)

moveAllLeft(elems, indicesToMove) ==
  LET sorted == SortAscending(indicesToMove)
      leftMostElements == elementsAt(elems, sorted)
      reversedIndicesToMove == Reverse(sorted) \o <<0>>
  IN fillLeft(moveAllLeftEach(elems, reversedIndicesToMove, 0),
              leftMostElements, 0)

\* for (pos = from; pos < index; ++pos) elements[pos - i] = elements[pos]
RECURSIVE moveAllRightShift(_, _, _, _)
moveAllRightShift(elems, pos, index, i) ==
  IF pos >= index THEN elems
  ELSE moveAllRightShift(arraySet(elems, pos - i, arrayGet(elems, pos)),
                         pos + 1, index, i)

\* indicesToMove.forEach((index, i) => ...), from position i on
RECURSIVE moveAllRightEach(_, _, _)
moveAllRightEach(elems, indices, i) ==
  IF i >= Len(indices) THEN elems
  ELSE IF i = 0 THEN moveAllRightEach(elems, indices, i + 1)
  ELSE moveAllRightEach(
         moveAllRightShift(elems, indices[i] + 1, indices[i + 1], i),
         indices, i + 1)

\* rightMostElements.forEach((element, i) =>
\*   { elements[elements.length - i - 1] = element })
RECURSIVE fillRight(_, _, _)
fillRight(elems, rightMostElements, i) ==
  IF i >= Len(rightMostElements) THEN elems
  ELSE fillRight(arraySet(elems, Len(elems) - i - 1, rightMostElements[i + 1]),
                 rightMostElements, i + 1)

\* moveAllRight that copies the elements to move after reversing the indices
moveAllRightCopiesReversed(elems, indicesToMove) ==
  LET reversedIndicesToMove == SortDescending(indicesToMove)
      rightMostElements == elementsAt(elems, Reverse(reversedIndicesToMove))
      indices == Reverse(reversedIndicesToMove) \o <<Len(elems)>>
  IN fillRight(moveAllRightEach(elems, indices, 0), rightMostElements, 0)

moveAllRight(elems, indicesToMove) ==
  LET reversedIndicesToMove == SortDescending(indicesToMove)
      rightMostElements == elementsAt(elems, reversedIndicesToMove)
      indices == Reverse(reversedIndicesToMove) \o <<Len(elems)>>
  IN fillRight(moveAllRightEach(elems, indices, 0), rightMostElements, 0)

(***************************************************************************)
(* SpecZ: the restacking functions on every array of at most MaxLen        *)
(* distinct elements and every array of distinct valid indices, in any     *)
(* order.  A first call restacks the array; a second call moves the same   *)
(* elements, found at their new indices, the other way.                    *)
(***************************************************************************)
Labels == <<"A", "B", "C", "D", "E">>

\* n distinct elements
Iota(n) == [k \in 1..n |-> [id |-> Labels[k]]]

Ids(elems) == [k \in 1..Len(elems) |-> IF "id" \in DOMAIN elems[k]
                                        THEN elems[k].id ELSE ""]

\* the scene of the examples in the comments of moveAllLeft and moveAllRight
ExampleScene ==
  [k \in 1..7 |-> [id |-> <<"a", "b", "c", "d", "e", "f", "g">>[k]]]

InjectiveSeqs(S) ==
  UNION {{s \in [1..k -> S] : \A a, b \in 1..k : a # b => s[a] # s[b]} :
         k \in 0..Cardinality(S)}

Shifted(indices, d) == [k \in 1..Len(indices) |-> indices[k] + d]

HistoryIdle == /\ recording = TRUE
               /\ stateHistory = <<>>
               /\ redoStack = <<>>

InitZ == /\ HistoryIdle
         /\ call = NoCall
         /\ \/ \E n \in 0..MaxLen :
                 /\ zElements = Iota(n)
                 /\ zIndices \in InjectiveSeqs(0..(n - 1))
            \/ /\ zElements = ExampleScene
               /\ zIndices \in {<<2, 5>>, <<5, 2>>}
         /\ zResult = zElements
         /\ AppIdle
         /\ FnIdle

CallMoveOneLeft ==
  /\ call.op = "none"
  /\ zResult' = moveOneLeft(zElements, zIndices)
  /\ call' = [NoCall EXCEPT !.op = "moveOneLeft"]
  /\ UNCHANGED <<recording, stateHistory, redoStack, zElements, zIndices,
               appVars, fnVars>>

CallMoveOneRight ==
  /\ call.op = "none"
  /\ zResult' = moveOneRight(zElements, zIndices)
  /\ call' = [NoCall EXCEPT !.op = "moveOneRight"]
  /\ UNCHANGED <<recording, stateHistory, redoStack, zElements, zIndices,
               appVars, fnVars>>

CallMoveAllLeft ==
  /\ call.op = "none"
  /\ zResult' = moveAllLeft(zElements, zIndices)
  /\ call' = [NoCall EXCEPT !.op = "moveAllLeft"]
  /\ UNCHANGED <<recording, stateHistory, redoStack, zElements, zIndices,
               appVars, fnVars>>

CallMoveAllRight ==
  /\ call.op = "none"
  /\ zResult' = moveAllRight(zElements, zIndices)
  /\ call' = [NoCall EXCEPT !.op = "moveAllRight"]
  /\ UNCHANGED <<recording, stateHistory, redoStack, zElements, zIndices,
               appVars, fnVars>>

\* moveOneRight on the result of moveOneLeft, no index having been 0
ThenMoveOneRight ==
  /\ call.op = "moveOneLeft"
  /\ 0 \notin Range(zIndices)
  /\ zResult' = moveOneRight(zResult, Shifted(zIndices, -1))
  /\ call' = [NoCall EXCEPT !.op = "moveOneLeft;moveOneRight"]
  /\ UNCHANGED <<recording, stateHistory, redoStack, zElements, zIndices,
               appVars, fnVars>>

\* moveOneLeft on the result of moveOneRight, no index having been the last
ThenMoveOneLeft ==
  /\ call.op = "moveOneRight"
  /\ (Len(zElements) - 1) \notin Range(zIndices)
  /\ zResult' = moveOneLeft(zResult, Shifted(zIndices, 1))
  /\ call' = [NoCall EXCEPT !.op = "moveOneRight;moveOneLeft"]
  /\ UNCHANGED <<recording, stateHistory, redoStack, zElements, zIndices,
               appVars, fnVars>>

\* the index in elems of the element x
indexIn(elems, x) == (CHOOSE k \in 1..Len(elems) : elems[k] = x) - 1

\* the indices, in the restacked array, of the elements selected by zIndices
\* in the original one
currentIndices ==
  [k \in 1..Len(zIndices) |-> indexIn(zResult, zElements[zIndices[k] + 1])]

\* the number of moveOneLeft or moveOneRight calls made on the array
applications == IF call.op \in {"moveOneLeft", "moveOneRight"} THEN 1
                ELSE call.arg

\* one more moveOneLeft on the same elements, found at their current indices
AgainMoveOneLeft ==
  /\ call.op \in {"moveOneLeft", "moveOneLeft*"}
  /\ applications < Len(zElements)
  /\ zResult' = moveOneLeft(zResult, currentIndices)
  /\ call' = [NoCall EXCEPT !.op = "moveOneLeft*", !.arg = applications + 1]
  /\ UNCHANGED <<recording, stateHistory, redoStack, zElements, zIndices,
               appVars, fnVars>>

\* one more moveOneRight on the same elements, found at their current indices
AgainMoveOneRight ==
  /\ call.op \in {"moveOneRight", "moveOneRight*"}
  /\ applications < Len(zElements)
  /\ zResult' = moveOneRight(zResult, currentIndices)
  /\ call' = [NoCall EXCEPT !.op = "moveOneRight*", !.arg = applications + 1]
  /\ UNCHANGED <<recording, stateHistory, redoStack, zElements, zIndices,
               appVars, fnVars>>

NextZ == \/ CallMoveOneLeft
         \/ CallMoveOneRight
         \/ CallMoveAllLeft
         \/ CallMoveAllRight
         \/ ThenMoveOneRight
         \/ ThenMoveOneLeft
         \/ AgainMoveOneLeft
         \/ AgainMoveOneRight

SpecZ == InitZ /\ [][NextZ]_vars

\* C9: for every array and every set I of distinct valid indices without
\* index 0, moveOneLeft with I followed by moveOneRight with {i - 1 : i in I}
\* returns the original array; and when I is without the last index,
\* moveOneRight with I followed by moveOneLeft with {i + 1 : i in I} returns
\* the original array.
C9_MoveOneInverse ==
  /\ call.op = "moveOneLeft;moveOneRight" => zResult = zElements
  /\ call.op = "moveOneRight;moveOneLeft" => zResult = zElements

C9_Witness == /\ call.op = "moveOneLeft;moveOneRight"
              /\ Len(zIndices) >= 2
              /\ moveOneLeft(zElements, zIndices) # zElements
              /\ zResult = zElements

\* number of selected indices that form a run 0, 1, .. from index 0
LeadingRun(I) == Cardinality({k \in I : \A j \in 0..k : j \in I})

Before(s, x, y) == \E a, b \in 1..Len(s) : a < b /\ s[a] = x /\ s[b] = y

\* C10: for any set of distinct valid indices, moveOneLeft moves every
\* selected element exactly one slot toward index 0, except the selected
\* elements that form a contiguous run starting at index 0, which keep their
\* position; unselected elements keep their relative order.  [A,B,C,D,E] with
\* indices [1,3] gives [B,A,D,C,E].
C10_MoveOneLeft ==
  call.op = "moveOneLeft" =>
    LET I == Range(zIndices)
        n == Len(zElements)
    IN /\ Len(zResult) = n
       /\ \A i \in I : IF i < LeadingRun(I)
                       THEN zResult[i + 1] = zElements[i + 1]
                       ELSE zResult[i] = zElements[i + 1]
       /\ \A p, q \in (0..(n - 1)) \ I :
            p < q => Before(zResult, zElements[p + 1], zElements[q + 1])
       /\ (Ids(zElements) = Labels /\ Range(zIndices) = {1, 3})
            => Ids(zResult) = <<"B", "A", "D", "C", "E">>

C10_Witness == /\ call.op = "moveOneLeft"
               /\ Ids(zElements) = Labels
               /\ zIndices = <<3, 1>>
               /\ Ids(zResult) = <<"B", "A", "D", "C", "E">>

\* number of selected indices that form a run .., n - 2, n - 1 up to the
\* last index of an array of n elements
TrailingRun(I, n) == Cardinality({k \in I : \A j \in k..(n - 1) : j \in I})

\* C11: for any set of distinct valid indices, moveOneRight moves every
\* selected element exactly one slot toward the last index, except the
\* selected elements that form a contiguous run ending at the last index,
\* which keep their position; unselected elements keep their relative order.
C11_MoveOneRight ==
  call.op = "moveOneRight" =>
    LET I == Range(zIndices)
        n == Len(zElements)
    IN /\ Len(zResult) = n
       /\ \A i \in I : IF i >= n - TrailingRun(I, n)
                       THEN zResult[i + 1] = zElements[i + 1]
                       ELSE zResult[i + 2] = zElements[i + 1]
       /\ \A p, q \in (0..(n - 1)) \ I :
            p < q => Before(zResult, zElements[p + 1], zElements[q + 1])

C11_Witness == /\ call.op = "moveOneRight"
               /\ Ids(zElements) = Labels
               /\ zIndices = <<4, 0, 2>>
               /\ Ids(zResult) = <<"B", "A", "D", "C", "E">>

\* the elements of elems at the indices of I, in the order of the array
Selected(elems, I) ==
  SelectSeq([k \in 1..Len(elems) |-> IF (k - 1) \in I THEN <<elems[k]>>
                                      ELSE <<>>],
            LAMBDA e : e # <<>>)

Flatten(s) == [k \in 1..Len(s) |-> s[k][1]]

\* C12: for any set of distinct valid indices, index 0 included or not,
\* moveAllLeft yields the selected elements in their original relative order
\* in the leading slots, followed by the unselected elements in their
\* original relative order; [a,b,c,d,e,f,g] with indices [2,5] yields
\* [c,f,a,b,d,e,g].
C12_MoveAllLeft ==
  call.op = "moveAllLeft" =>
    LET I == Range(zIndices)
        others == (0..(Len(zElements) - 1)) \ I
    IN /\ zResult = Flatten(Selected(zElements, I))
                      \o Flatten(Selected(zElements, others))
       /\ zElements = ExampleScene
            => Ids(zResult) = <<"c", "f", "a", "b", "d", "e", "g">>

C12_Witness == /\ call.op = "moveAllLeft"
               /\ zElements = ExampleScene
               /\ zIndices = <<5, 2>>
               /\ Ids(zResult) = <<"c", "f", "a", "b", "d", "e", "g">>

\* C13: for any set of distinct valid indices, the last index included or
\* not, moveAllRight yields the unselected elements in their original
\* relative order, followed by the selected elements in their original
\* relative order in the trailing slots; [a,b,c,d,e,f,g] with indices [2,5]
\* yields [a,b,d,e,g,c,f].
C13_MoveAllRight ==
  call.op = "moveAllRight" =>
    LET I == Range(zIndices)
        others == (0..(Len(zElements) - 1)) \ I
    IN /\ zResult = Flatten(Selected(zElements, others))
                      \o Flatten(Selected(zElements, I))
       /\ zElements = ExampleScene
            => Ids(zResult) = <<"a", "b", "d", "e", "g", "c", "f">>

C13_Witness == /\ call.op = "moveAllRight"
               /\ zElements = ExampleScene
               /\ zIndices = <<2, 5>>
               /\ Ids(zResult) = <<"a", "b", "d", "e", "g", "c", "f">>

(***************************************************************************)
(* The App component, src/src/index.tsx.                                   *)
(*                                                                         *)
(* Element objects live in heap and are known by their position in it:     *)
(* elements (the module-level array), state.draggingElement,              *)
(* state.resizingElement, state.multiElement and the hitElement captured   *)
(* by a gesture hold such references, 0 standing for null, so that an      *)
(* object dropped from the array can still be written through a reference  *)
(* held elsewhere.  The handlers are operators on the machine              *)
(* m = [h, elements, heap, state, gesture] and return the new machine.     *)
(*                                                                         *)
(* The pointer is kept off the scroll bars, no modifier key is held during *)
(* a pointer event, and the viewport shows every element (scrolledOutside  *)
(* stays false).  In Spec and SpecC1 the pointer is kept off the resize    *)
(* handles and the tools are selection and rectangle; SpecDraw adds the    *)
(* arrow tool, the tool bar and the resize handles.  The text and line     *)
(* tools and the Escape key are left out.                                  *)
(***************************************************************************)
Machine == [h |-> History, elements |-> elements, heap |-> heap,
            state |-> state, gesture |-> gesture]

\* the element objects of the scene, in order
Objects(m) == [k \in 1..Len(m.elements) |-> m.heap[m.elements[k]]]

\* history.generateCurrentEntry(pickAppStatePropertiesForHistory(this.state), elements)
Snapshot(m) ==
  generateCurrentEntry(pickAppStatePropertiesForHistory(m.state), Objects(m))

\* what the shape of an element is drawn from: the width and the height of
\* a rectangle, the points of an arrow
shapeOf(element) ==
  IF element.type = "arrow"
  THEN <<IF Len(element.points) > 0 THEN element.points ELSE <<<<0, 0>>>>>>
  ELSE <<element.width, element.height>>

\* the renderer caches the shape of an element that has none
generateElement(element) ==
  IF element.type = "selection" THEN element
  ELSE IF "shape" \notin DOMAIN element THEN
         With(element, "shape", shapeOf(element))
  ELSE IF element.shape = NoShape THEN
         With(element, "shape", shapeOf(element))
  ELSE element

renderScene(m) ==
  [m EXCEPT !.heap = [o \in DOMAIN m.heap |->
                        IF o \in Range(m.elements)
                        THEN generateElement(m.heap[o]) ELSE m.heap[o]]]

componentDidUpdate(m) ==
  LET r == renderScene(m)
  IN IF r.h.recording
     THEN [r EXCEPT !.h = pushEntry(r.h, Snapshot(r))]
     ELSE [r EXCEPT !.h = resumeRecording(r.h)]

NoPatch == <<>>

\* the element of a set of one element: a value that is computed once
Only(S) == CHOOSE x \in S : TRUE

Merge(s, patch) ==
  [k \in DOMAIN s |-> IF k \in DOMAIN patch THEN patch[k] ELSE s[k]]

\* this.setState(patch) and the update it causes: shouldComponentUpdate
\* either lets React render and call componentDidUpdate, or, when the
\* history is not recording, installs the state and calls componentDidUpdate
\* itself.
setState(m, patch) ==
  LET merged(next) == [next EXCEPT !.state = Merge(next.state, patch)]
  IN Only({componentDidUpdate(x) : x \in {merged(next) : next \in {m}}})

clearSelection(m) ==
  [m EXCEPT !.heap = [o \in DOMAIN m.heap |->
                        IF o \in Range(m.elements)
                        THEN [m.heap[o] EXCEPT !.isSelected = FALSE]
                        ELSE m.heap[o]]]

\* ids are random strings: a new id is one that no element has, in the
\* scene or in the history
IdsOf(entries) ==
  UNION {{entries[k].doc.elements[j].id :
            j \in 1..Len(entries[k].doc.elements)} : k \in 1..Len(entries)}

UsedIds(m) == {m.heap[o].id : o \in DOMAIN m.heap}
                \cup IdsOf(m.h.stateHistory) \cup IdsOf(m.h.redoStack)

nanoid(m) ==
  CHOOSE n \in 1..(Cardinality(UsedIds(m)) + 1) :
    /\ n \notin UsedIds(m)
    /\ \A k \in 1..(n - 1) : k \in UsedIds(m)

(***************************************************************************)
(* Hit testing, src/src/element/collision.ts and src/src/scene.            *)
(***************************************************************************)
lineThreshold == 10

Min(S) == CHOOSE a \in S : \A b \in S : a <= b

Max(S) == CHOOSE a \in S : \A b \in S : a >= b

\* the bounds of the points of an arrow or a line; the curve drawn through
\* the points is taken to stay within them
getLinearElementAbsoluteBounds(element) ==
  LET xs == {element.points[k][1] : k \in 1..Len(element.points)}
      ys == {element.points[k][2] : k \in 1..Len(element.points)}
  IN <<Min(xs) + element.x, Min(ys) + element.y,
       Max(xs) + element.x, Max(ys) + element.y>>

getElementAbsoluteCoords(element) ==
  IF element.type \in {"arrow", "line"} /\ Len(element.points) > 0
  THEN getLinearElementAbsoluteBounds(element)
  ELSE <<element.x, element.y, element.x + element.width,
         element.y + element.height>>

\* distanceBetweenPointAndSegment(x, y, x1, y1, x2, y2) < d, on squares
distanceBetweenPointAndSegmentBelow(x, y, x1, y1, x2, y2, d) ==
  LET l2 == (x2 - x1) * (x2 - x1) + (y2 - y1) * (y2 - y1)
      dot == (x - x1) * (x2 - x1) + (y - y1) * (y2 - y1)
      cross == (x - x1) * (y2 - y1) - (y - y1) * (x2 - x1)
  IN IF l2 = 0 \/ dot <= 0
     THEN (x - x1) * (x - x1) + (y - y1) * (y - y1) < d * d
     ELSE IF dot >= l2
     THEN (x - x2) * (x - x2) + (y - y2) * (y - y2) < d * d
     ELSE cross * cross < d * d * l2

\* hitTest with a filled rectangle tested against its bounds alone
hitTestWithoutThreshold(element, x, y) ==
  IF element.type = "rectangle"
  THEN LET c == getElementAbsoluteCoords(element)
       IN IF element.backgroundColor # "transparent"
          THEN c[1] < x /\ x < c[3] /\ c[2] < y /\ y < c[4]
          ELSE \E side \in {<<1, 2, 3, 2>>, <<3, 2, 3, 4>>,
                            <<3, 4, 1, 4>>, <<1, 4, 1, 2>>} :
                 distanceBetweenPointAndSegmentBelow(
                   x, y, c[side[1]], c[side[2]], c[side[3]], c[side[4]],
                   lineThreshold)
  ELSE FALSE

hitTest(element, x, y) ==
  IF element.type = "rectangle"
  THEN LET c == getElementAbsoluteCoords(element)
           x1 == c[1]
           y1 == c[2]
           x2 == c[3]
           y2 == c[4]
       IN IF element.backgroundColor # "transparent"
          THEN /\ x > x1 - lineThreshold
               /\ x < x2 + lineThreshold
               /\ y > y1 - lineThreshold
               /\ y < y2 + lineThreshold
          ELSE \/ distanceBetweenPointAndSegmentBelow(x, y, x1, y1, x2, y1,
                                                      lineThreshold)
               \/ distanceBetweenPointAndSegmentBelow(x, y, x2, y1, x2, y2,
                                                      lineThreshold)
               \/ distanceBetweenPointAndSegmentBelow(x, y, x2, y2, x1, y2,
                                                      lineThreshold)
               \/ distanceBetweenPointAndSegmentBelow(x, y, x1, y2, x1, y1,
                                                      lineThreshold)
  ELSE FALSE

\* from the front (the end of the array) to the back
getElementAtPosition(m, x, y) ==
  LET hits == {k \in 1..Len(m.elements) :
                 hitTest(m.heap[m.elements[k]], x, y)}
  IN IF hits = {} THEN 0
     ELSE m.elements[CHOOSE k \in hits : \A j \in hits : j <= k]

\* the elements whose bounds the selection rectangle encloses
getElementsWithinSelection(m, selection) ==
  LET s == getElementAbsoluteCoords(selection)
  IN {o \in Range(m.elements) :
        LET c == getElementAbsoluteCoords(m.heap[o])
        IN /\ m.heap[o].type # "selection"
           /\ s[1] <= c[1]
           /\ s[2] <= c[2]
           /\ s[3] >= c[3]
           /\ s[4] >= c[4]}

\* an arrow or a line is invisibly small when its path has no length
isInvisiblySmallElement(element) ==
  IF element.type \in {"arrow", "line"} /\ "points" \in DOMAIN element
  THEN \A k \in 1..Len(element.points) :
         element.points[k] = element.points[1]
  ELSE element.width = 0 /\ element.height = 0

\* negative width or height of a box-like element is turned positive by
\* moving the anchor to the opposite corner; changed tells whether anything
\* was done
normalizeDimensions(element) ==
  IF \/ element.width >= 0 /\ element.height >= 0
     \/ element.type \in {"arrow", "line"}
  THEN [changed |-> FALSE, element |-> element]
  ELSE LET w == IF element.width < 0
                THEN [element EXCEPT !.width = -element.width,
                                     !.x = element.x + element.width]
                ELSE element
           hgt == IF w.height < 0
                  THEN [w EXCEPT !.height = -w.height,
                                 !.y = w.y + w.height]
                  ELSE w
       IN [changed |-> TRUE, element |-> With(hgt, "shape", NoShape)]

\* the difference with its sign
distanceSigned(x, y) == y - x

distance(x, y) == IF x - y < 0 THEN y - x ELSE x - y

\* distance2d(x1, y1, x2, y2) < d, on squares
distance2dBelow(x1, y1, x2, y2, d) ==
  (x2 - x1) * (x2 - x1) + (y2 - y1) * (y2 - y1) < d * d

viewportCoordsToSceneCoords(p, appState) ==
  [x |-> p[1] - appState.scrollX, y |-> p[2] - appState.scrollY]

(***************************************************************************)
(* onKeyDown.                                                              *)
(***************************************************************************)
ELEMENT_SHIFT_TRANSLATE_AMOUNT == 5
ELEMENT_TRANSLATE_AMOUNT == 1

\* an arrow key: every selected element is replaced by a moved copy
onKeyDownArrow(m, key, shiftKey) ==
  LET step == IF shiftKey THEN ELEMENT_SHIFT_TRANSLATE_AMOUNT
              ELSE ELEMENT_TRANSLATE_AMOUNT
      moved(el) == IF key = "ArrowLeft" THEN [el EXCEPT !.x = @ - step]
                   ELSE IF key = "ArrowRight" THEN [el EXCEPT !.x = @ + step]
                   ELSE IF key = "ArrowUp" THEN [el EXCEPT !.y = @ - step]
                   ELSE IF key = "ArrowDown" THEN [el EXCEPT !.y = @ + step]
                   ELSE el
      sel == {k \in 1..Len(m.elements) : m.heap[m.elements[k]].isSelected}
      rank(k) == Cardinality({j \in sel : j <= k})
      kth(i) == CHOOSE k \in sel : rank(k) = i
      n == Len(m.heap)
  IN setState(
       [m EXCEPT
          !.heap = [o \in 1..(n + Cardinality(sel)) |->
                      IF o <= n THEN m.heap[o]
                      ELSE moved(m.heap[m.elements[kth(o - n)]])],
          !.elements = [k \in 1..Len(m.elements) |->
                          IF k \in sel THEN n + rank(k) ELSE m.elements[k]]],
       NoPatch)

\* the shortcut key of a tool
onKeyDownShape(m, shape) ==
  IF m.state.draggingElement = 0
  THEN setState(clearSelection(m), [elementType |-> shape])
  ELSE m

\* restoring that installs the application state and keeps the elements
restoreDataStateOnly(m, data) ==
  IF data.isNull THEN m ELSE setState(m, data.value.appState)

\* elements = data.elements; this.setState({ ...data.appState })
restoreData(m, data) ==
  IF data.isNull THEN m
  ELSE LET elems == data.value.elements
       IN setState([m EXCEPT !.heap = m.heap \o elems,
                             !.elements = [k \in 1..Len(elems) |->
                                             Len(m.heap) + k]],
                   data.value.appState)

onKeyDownUndo(m) ==
  IF m.state.resizingElement # 0 \/ m.state.multiElement # 0
       \/ m.state.editingElement # 0
  THEN m
  ELSE LET r == undoOnce(m.h)
       IN restoreData([m EXCEPT !.h = r.h], r.ret)

onKeyDownRedo(m) ==
  IF m.state.resizingElement # 0 \/ m.state.multiElement # 0
       \/ m.state.editingElement # 0
  THEN m
  ELSE LET r == redoOnce(m.h)
       IN restoreData([m EXCEPT !.h = r.h], r.ret)

(***************************************************************************)
(* The canvas onMouseDown handler and the onMouseMove and onMouseUp        *)
(* listeners it installs on the window.  gesture holds the variables the   *)
(* listeners close over; lastMouseUp tells whether they are installed.     *)
(* onMouseDown runs inside a React event handler, where the calls of       *)
(* setState are collected and applied in one update when it returns.       *)
(***************************************************************************)
onMouseDown(m, p, resizeElement) ==
  LET c == viewportCoordsToSceneCoords(p, m.state)
      elementType == m.state.elementType
      isSelection == elementType = "selection"
      isResizingElements == isSelection /\ ~ resizeElement.isNull
      oid == Len(m.heap) + 1
      multiElement == m.state.multiElement
      patch ==
        IF isSelection
        THEN [resizingElement |-> IF isResizingElements
                                  THEN resizeElement.value.element ELSE 0,
              multiElement |-> 0, draggingElement |-> oid]
        ELSE IF elementType = "arrow"
        THEN [draggingElement |-> IF multiElement # 0 THEN multiElement
                                  ELSE oid]
        ELSE [multiElement |-> 0, draggingElement |-> oid]
      \* the selection after the hit test
      select(hitElement) ==
        LET hitIsSelected == hitElement # 0 /\ m.heap[hitElement].isSelected
        IN IF hitElement # 0 /\ ~ hitIsSelected
           THEN [clearSelection(m) EXCEPT !.heap[hitElement].isSelected = TRUE]
           ELSE IF isResizingElements \/ (isSelection /\ hitIsSelected)
           THEN m
           ELSE clearSelection(m)
      \* a click of the arrow tool while an arrow is being extended adds a
      \* point; otherwise the new element is appended
      place(marked, element) ==
        IF elementType = "arrow"
        THEN IF multiElement # 0
             THEN [marked EXCEPT
                     !.heap[multiElement] =
                        [@ EXCEPT !.isSelected = TRUE,
                                  !.points = Append(@, <<c.x - marked.heap[multiElement].x,
                                                         c.y - marked.heap[multiElement].y>>),
                                  !.shape = NoShape]]
             ELSE [marked EXCEPT
                     !.heap = Append(@, [element EXCEPT
                                           !.points = <<<<0, 0>>>>]),
                     !.elements = Append(@, oid)]
        ELSE [marked EXCEPT !.heap = Append(@, element),
                            !.elements = Append(@, oid)]
      listening(placed, hitElement) ==
        LET skip == \/ multiElement = 0
                    \/ Len(placed.heap[multiElement].points) < 2
        IN [placed EXCEPT
              !.h = IF skip THEN skipRecording(@) ELSE @,
              !.gesture =
                 [lastMouseUp |-> TRUE,
                  originX |-> c.x, originY |-> c.y,
                  lastX |-> c.x, lastY |-> c.y,
                  hitElement |-> hitElement,
                  draggingOccurred |-> FALSE,
                  elementIsAddedToSelection |->
                     hitElement # 0 /\ ~ m.heap[hitElement].isSelected,
                  resizeHandle |-> IF isResizingElements
                                   THEN resizeElement.value.resizeHandle
                                   ELSE "none",
                  isResizingElements |-> isResizingElements,
                  resizeArrowFn |-> "none"]]
      down(hitElement) ==
        Only({setState(listening(placed, hitElement), patch) :
                placed \in {place(marked, element) :
                              marked \in {select(hitElement)},
                              element \in {newElement(elementType, c.x, c.y,
                                             m.state.currentItemBackgroundColor,
                                             nanoid(m))}}})
  IN Only({down(hitElement) :
             hitElement \in {IF isSelection /\ ~ isResizingElements
                             THEN getElementAtPosition(m, c.x, c.y)
                             ELSE 0}})

\* [...points].sort((a, b) => a[axis] - b[axis]): the rank, from 0, of the
\* point at position k in the sorted copy; the sort is stable
sortedRank(points, axis, k) ==
  Cardinality({j \in 1..Len(points) :
                 \/ points[j][axis] < points[k][axis]
                 \/ points[j][axis] = points[k][axis] /\ j < k})

\* for (let i = from; i < points.length; ++i)
\*   points[i][axis] += sign * delta / (len - i), on the sorted copy, whose
\* points are the points of the element.  The pointer positions keep every
\* quotient whole.
spreadDelta(points, axis, from, sign, delta) ==
  [k \in 1..Len(points) |->
     LET i == sortedRank(points, axis, k)
     IN IF i < from THEN points[k]
        ELSE [points[k] EXCEPT
                ![axis] = @ + sign * (delta \div (Len(points) - i))]]

\* the handle that is under the pointer once a dimension has turned negative
normalizeResizeHandle(element, resizeHandle) ==
  LET flipX == [nw |-> "ne", ne |-> "nw", sw |-> "se", se |-> "sw",
                e |-> "w", w |-> "e", n |-> "n", s |-> "s"]
      flipY == [nw |-> "sw", sw |-> "nw", ne |-> "se", se |-> "ne",
                n |-> "s", s |-> "n", e |-> "e", w |-> "w"]
      hx == IF element.width < 0 THEN flipX[resizeHandle] ELSE resizeHandle
  IN IF element.height < 0 THEN flipY[hx] ELSE hx

\* which end of a two-point arrow a corner handle moves, decided on the
\* first step of the gesture
chooseResizeArrowFn(resizeHandle, p1) ==
  LET isEnd == CASE resizeHandle = "nw" -> p1[1] < 0 \/ p1[2] < 0
                 [] resizeHandle = "ne" -> p1[1] >= 0
                 [] resizeHandle = "sw" -> p1[1] <= 0
                 [] OTHER -> p1[1] > 0 \/ p1[2] > 0
  IN IF isEnd THEN "arrowResizeEnd" ELSE "arrowResizeOrigin"

\* the end a corner handle moves, chosen anew at every step
resizeArrowFnRechosen(g, element) ==
  IF /\ g.resizeHandle \in {"nw", "ne", "sw", "se"}
     /\ element.type = "arrow" /\ Len(element.points) = 2
  THEN chooseResizeArrowFn(g.resizeHandle, element.points[2])
  ELSE g.resizeArrowFn

\* if (!resizeArrowFn) { resizeArrowFn = ... }: the end a corner handle of a
\* two-point arrow moves is chosen when the gesture has not chosen it yet
resizeArrowFnOf(g, element) ==
  IF /\ g.resizeHandle \in {"nw", "ne", "sw", "se"}
     /\ element.type = "arrow" /\ Len(element.points) = 2
     /\ g.resizeArrowFn = "none"
  THEN chooseResizeArrowFn(g.resizeHandle, element.points[2])
  ELSE g.resizeArrowFn

arrowResizeOrigin(element, deltaX, deltaY) ==
  [element EXCEPT !.x = @ + deltaX,
                  !.y = @ + deltaY,
                  !.points[2] = <<@[1] - deltaX, @[2] - deltaY>>]

arrowResizeEnd(element, deltaX, deltaY) ==
  [element EXCEPT !.points[2] = <<@[1] + deltaX, @[2] + deltaY>>]

\* the switch on resizeHandle: the element after the step, before it is
\* normalized
resizeSwitch(element, resizeHandle, resizeArrowFn, deltaX, deltaY) ==
  LET twoPointArrow == element.type = "arrow" /\ Len(element.points) = 2
      hasPoints == Len(element.points) > 0
  IN IF resizeHandle \in {"nw", "ne", "sw", "se"} /\ twoPointArrow
     THEN IF resizeArrowFn = "arrowResizeEnd"
          THEN arrowResizeEnd(element, deltaX, deltaY)
          ELSE arrowResizeOrigin(element, deltaX, deltaY)
     ELSE CASE resizeHandle = "nw" ->
                 [element EXCEPT !.width = @ - deltaX, !.x = @ + deltaX,
                                 !.height = @ - deltaY, !.y = @ + deltaY]
            [] resizeHandle = "ne" ->
                 [element EXCEPT !.width = @ + deltaX,
                                 !.height = @ - deltaY, !.y = @ + deltaY]
            [] resizeHandle = "sw" ->
                 [element EXCEPT !.width = @ - deltaX, !.x = @ + deltaX,
                                 !.height = @ + deltaY]
            [] resizeHandle = "se" ->
                 [element EXCEPT !.width = @ + deltaX,
                                 !.height = @ + deltaY]
            [] resizeHandle = "n" ->
                 [element EXCEPT
                    !.height = @ - deltaY, !.y = @ + deltaY,
                    !.points = IF hasPoints
                               THEN spreadDelta(@, 2, 1, -1, deltaY) ELSE @]
            [] resizeHandle = "w" ->
                 [element EXCEPT
                    !.width = @ - deltaX, !.x = @ + deltaX,
                    !.points = IF hasPoints
                               THEN spreadDelta(@, 1, 0, -1, deltaX) ELSE @]
            [] resizeHandle = "s" ->
                 [element EXCEPT
                    !.height = @ + deltaY,
                    !.points = IF hasPoints
                               THEN spreadDelta(@, 2, 1, 1, deltaY) ELSE @]
            [] resizeHandle = "e" ->
                 [element EXCEPT
                    !.width = @ + deltaX,
                    !.points = IF hasPoints
                               THEN spreadDelta(@, 1, 1, 1, deltaX) ELSE @]
            [] OTHER -> element

\* the corner cases of the switch with the shift key held, for an element
\* that is neither an arrow nor a line, but with the north-west case
\* leaving y as it is
resizeSwitchPerfectUnanchored(element, resizeHandle, deltaX, deltaY) ==
  CASE resizeHandle = "nw" ->
         LET w == [element EXCEPT !.width = @ - deltaX, !.x = @ + deltaX]
         IN [w EXCEPT !.height = w.width]
    [] resizeHandle = "ne" ->
         LET w == [element EXCEPT !.width = @ + deltaX]
         IN [w EXCEPT !.y = @ + w.height - w.width, !.height = w.width]
    [] resizeHandle = "sw" ->
         LET w == [element EXCEPT !.width = @ - deltaX, !.x = @ + deltaX]
         IN [w EXCEPT !.height = w.width]
    [] resizeHandle = "se" ->
         LET w == [element EXCEPT !.width = @ + deltaX]
         IN [w EXCEPT !.height = w.width]
    [] OTHER -> resizeSwitch(element, resizeHandle, "none", deltaX, deltaY)

\* the switch on resizeHandle when e.shiftKey is set, for an element that is
\* neither an arrow nor a line: the corner cases make the height equal to
\* the width, the edge cases do not read the key
resizeSwitchPerfect(element, resizeHandle, deltaX, deltaY) ==
  CASE resizeHandle = "nw" ->
         LET w == [element EXCEPT !.width = @ - deltaX, !.x = @ + deltaX]
         IN [w EXCEPT !.y = @ + w.height - w.width, !.height = w.width]
    [] resizeHandle = "ne" ->
         LET w == [element EXCEPT !.width = @ + deltaX]
         IN [w EXCEPT !.y = @ + w.height - w.width, !.height = w.width]
    [] resizeHandle = "sw" ->
         LET w == [element EXCEPT !.width = @ - deltaX, !.x = @ + deltaX]
         IN [w EXCEPT !.height = w.width]
    [] resizeHandle = "se" ->
         LET w == [element EXCEPT !.width = @ + deltaX]
         IN [w EXCEPT !.height = w.width]
    [] OTHER -> resizeSwitch(element, resizeHandle, "none", deltaX, deltaY)

\* the first selected element of the scene, 0 when there is none
firstSelected(m) ==
  LET sel == {k \in 1..Len(m.elements) : m.heap[m.elements[k]].isSelected}
  IN IF sel = {} THEN 0 ELSE m.elements[Min(sel)]

\* the resize step without normalizeDimensions(element)
onMouseMoveResizeUnnormalized(m, c) ==
  LET g == m.gesture
      el == m.state.resizingElement
      element == firstSelected(m)
      deltaX == c.x - g.lastX
      deltaY == c.y - g.lastY
      before == m.heap[element]
      resizeArrowFn == resizeArrowFnOf(g, before)
      resized == resizeSwitch(before, g.resizeHandle, resizeArrowFn,
                              deltaX, deltaY)
      resizeHandle == IF g.resizeHandle = "none" THEN "none"
                      ELSE normalizeResizeHandle(resized, g.resizeHandle)
      normalized == resized
      n == [m EXCEPT !.heap[element] = normalized]
  IN setState(
       [n EXCEPT !.heap[el] = [@ EXCEPT !.x = normalized.x,
                                        !.y = normalized.y,
                                        !.shape = NoShape],
                 !.gesture = [g EXCEPT !.resizeHandle = resizeHandle,
                                       !.resizeArrowFn = resizeArrowFn,
                                       !.lastX = c.x, !.lastY = c.y],
                 !.h = skipRecording(@)],
       NoPatch)

\* onMouseMove while one selected element is being resized
onMouseMoveResize(m, c) ==
  LET g == m.gesture
      el == m.state.resizingElement
      element == firstSelected(m)
      deltaX == c.x - g.lastX
      deltaY == c.y - g.lastY
      before == m.heap[element]
      resizeArrowFn == resizeArrowFnOf(g, before)
      resized == resizeSwitch(before, g.resizeHandle, resizeArrowFn,
                              deltaX, deltaY)
      resizeHandle == IF g.resizeHandle = "none" THEN "none"
                      ELSE normalizeResizeHandle(resized, g.resizeHandle)
      normalized == normalizeDimensions(resized).element
      n == [m EXCEPT !.heap[element] = normalized]
  IN setState(
       [n EXCEPT !.heap[el] = [@ EXCEPT !.x = normalized.x,
                                        !.y = normalized.y,
                                        !.shape = NoShape],
                 !.gesture = [g EXCEPT !.resizeHandle = resizeHandle,
                                       !.resizeArrowFn = resizeArrowFn,
                                       !.lastX = c.x, !.lastY = c.y],
                 !.h = skipRecording(@)],
       NoPatch)

\* onMouseMove with the shift key held while one selected element, neither
\* an arrow nor a line, is being resized
onMouseMoveResizePerfect(m, c) ==
  LET g == m.gesture
      el == m.state.resizingElement
      element == firstSelected(m)
      resized == resizeSwitchPerfect(m.heap[element], g.resizeHandle,
                                     c.x - g.lastX, c.y - g.lastY)
      resizeHandle == IF g.resizeHandle = "none" THEN "none"
                      ELSE normalizeResizeHandle(resized, g.resizeHandle)
      normalized == normalizeDimensions(resized).element
      n == [m EXCEPT !.heap[element] = normalized]
  IN setState(
       [n EXCEPT !.heap[el] = [@ EXCEPT !.x = normalized.x,
                                        !.y = normalized.y,
                                        !.shape = NoShape],
                 !.gesture = [g EXCEPT !.resizeHandle = resizeHandle,
                                       !.lastX = c.x, !.lastY = c.y],
                 !.h = skipRecording(@)],
       NoPatch)

DRAGGING_THRESHOLD == 10

\* the selected elements follow the pointer, but by its distance from the
\* pointer-down position at every move
onMouseMoveDragFromOrigin(m, c) ==
  LET g == m.gesture
      selectedElements == {o \in Range(m.elements) : m.heap[o].isSelected}
  IN setState(
       [m EXCEPT
          !.heap = [o \in DOMAIN m.heap |->
                      IF o \in selectedElements
                      THEN [m.heap[o] EXCEPT !.x = @ + (c.x - g.originX),
                                             !.y = @ + (c.y - g.originY)]
                      ELSE m.heap[o]],
          !.gesture = [g EXCEPT !.draggingOccurred = TRUE,
                                !.lastX = c.x, !.lastY = c.y],
          !.h = skipRecording(@)],
       NoPatch)

\* the selected elements follow the pointer: each moves by the distance of
\* the pointer from its last position
onMouseMoveDrag(m, c) ==
  LET g == m.gesture
      selectedElements == {o \in Range(m.elements) : m.heap[o].isSelected}
  IN setState(
       [m EXCEPT
          !.heap = [o \in DOMAIN m.heap |->
                      IF o \in selectedElements
                      THEN [m.heap[o] EXCEPT !.x = @ + (c.x - g.lastX),
                                             !.y = @ + (c.y - g.lastY)]
                      ELSE m.heap[o]],
          !.gesture = [g EXCEPT !.draggingOccurred = TRUE,
                                !.lastX = c.x, !.lastY = c.y],
          !.h = skipRecording(@)],
       NoPatch)

onMouseMove(m, p) ==
  LET c == viewportCoordsToSceneCoords(p, m.state)
      g == m.gesture
      hitIsSelected == g.hitElement # 0 /\ m.heap[g.hitElement].isSelected
      selectedElements == {o \in Range(m.elements) : m.heap[o].isSelected}
      draggingElement == m.state.draggingElement
      elementType == m.state.elementType
  IN IF /\ ~ g.draggingOccurred
        /\ elementType = "arrow"
        /\ distance2dBelow(c.x, c.y, g.originX, g.originY, DRAGGING_THRESHOLD)
     THEN m
     ELSE IF /\ g.isResizingElements
             /\ m.state.resizingElement # 0
             /\ Cardinality(selectedElements) = 1
     THEN onMouseMoveResize(m, c)
     ELSE IF hitIsSelected /\ selectedElements # {}
     THEN onMouseMoveDrag(m, c)
     ELSE LET d == IF hitIsSelected
                   THEN [m EXCEPT !.gesture.draggingOccurred = TRUE]
                   ELSE m
          IN IF draggingElement = 0 THEN d
             ELSE \* the element being created is sized from the origin
                  LET isLinear == elementType \in {"line", "arrow"}
                      absWidth == distance(g.originX, c.x)
                      absHeight == distance(g.originY, c.y)
                      width == IF isLinear /\ c.x < g.originX
                               THEN -absWidth ELSE absWidth
                      height == IF isLinear /\ c.y < g.originY
                                THEN -absHeight ELSE absHeight
                      old == d.heap[draggingElement]
                      placed == IF isLinear THEN old
                                ELSE [old EXCEPT
                                        !.x = IF c.x < g.originX
                                              THEN g.originX - width
                                              ELSE g.originX,
                                        !.y = IF c.y < g.originY
                                              THEN g.originY - height
                                              ELSE g.originY]
                      pnt == <<c.x - placed.x, c.y - placed.y>>
                      points == IF elementType # "arrow" THEN placed.points
                                ELSE IF Len(placed.points) = 1
                                THEN Append(placed.points, pnt)
                                ELSE IF Len(placed.points) > 1
                                THEN [placed.points EXCEPT
                                        ![Len(placed.points)] = pnt]
                                ELSE placed.points
                      sized == [placed EXCEPT !.width = width,
                                              !.height = height,
                                              !.points = points,
                                              !.shape = NoShape]
                      drawn == [d EXCEPT
                                  !.heap[draggingElement] = sized,
                                  !.gesture.draggingOccurred =
                                     @ \/ elementType = "arrow"]
                      picked == IF drawn.state.elementType = "selection"
                                THEN LET cl == clearSelection(drawn)
                                         within ==
                                           getElementsWithinSelection(cl, sized)
                                     IN [cl EXCEPT
                                           !.heap = [o \in DOMAIN cl.heap |->
                                              IF o \in within
                                              THEN [cl.heap[o] EXCEPT
                                                      !.isSelected = TRUE]
                                              ELSE cl.heap[o]]]
                                ELSE drawn
                  IN setState([picked EXCEPT !.h = skipRecording(@)], NoPatch)

onMouseUp(m, p) ==
  LET draggingElement == m.state.draggingElement
      resizingElement == m.state.resizingElement
      multiElement == m.state.multiElement
      elementType == m.state.elementType
      elementLocked == m.state.elementLocked
      g == m.gesture
      \* the listeners are removed and their closure is dropped; hitElement
      \* is still read below
      u == [m EXCEPT !.gesture = NoGesture]
  IN IF elementType = "arrow"
     THEN IF draggingElement = 0 THEN u
          ELSE LET r == IF Len(u.heap[draggingElement].points) > 1
                        THEN [u EXCEPT !.h = resumeRecording(@)]
                        ELSE u
               IN IF ~ g.draggingOccurred /\ multiElement = 0
                  THEN setState(r, [multiElement |-> draggingElement])
                  ELSE IF g.draggingOccurred /\ multiElement = 0
                  THEN setState(
                         [r EXCEPT !.heap[draggingElement].isSelected = TRUE],
                         [draggingElement |-> 0, elementType |-> "selection"])
                  ELSE r
     ELSE IF elementType # "selection" /\ draggingElement # 0
               /\ isInvisiblySmallElement(m.heap[draggingElement])
     THEN setState([u EXCEPT !.elements = Front(@)],
                   [draggingElement |-> 0])
     ELSE LET nd == IF draggingElement = 0
                    THEN [changed |-> FALSE]
                    ELSE normalizeDimensions(u.heap[draggingElement])
              n == IF nd.changed
                   THEN setState([u EXCEPT !.heap[draggingElement] =
                                             nd.element], NoPatch)
                   ELSE u
              f == IF resizingElement # 0
                   THEN IF isInvisiblySmallElement(n.heap[resizingElement])
                        THEN [n EXCEPT !.elements =
                                SelectSeq(@, LAMBDA o :
                                  n.heap[o].id # n.heap[resizingElement].id)]
                        ELSE n
                   ELSE n
              s == IF g.hitElement # 0 /\ ~ g.draggingOccurred
                        /\ ~ g.elementIsAddedToSelection
                   THEN [clearSelection(f) EXCEPT
                           !.heap[g.hitElement].isSelected = TRUE]
                   ELSE f
          IN IF draggingElement = 0
             THEN setState(clearSelection(s), NoPatch)
             ELSE LET t == IF elementType = "selection"
                           THEN [s EXCEPT !.elements = Front(@)]
                           ELSE IF ~ elementLocked
                           THEN [s EXCEPT
                                   !.heap[draggingElement].isSelected = TRUE]
                           ELSE s
                  IN IF ~ elementLocked
                     THEN setState(t, [draggingElement |-> 0,
                                       elementType |-> "selection"])
                     ELSE setState(t, [draggingElement |-> 0])

\* a tool is picked in the tool bar
onChangeTool(m, value) ==
  setState(clearSelection(m), [elementType |-> value, multiElement |-> 0])

(***************************************************************************)
(* Objects that nothing refers to any longer are dropped and the others    *)
(* renumbered in the order of the array, so that a state is the same       *)
(* whatever the addresses of its objects.                                  *)
(***************************************************************************)
Roots(m) ==
  LET refs == <<m.state.draggingElement, m.gesture.hitElement,
                m.state.resizingElement, m.state.multiElement>>
      extra(k) == IF /\ refs[k] # 0
                     /\ refs[k] \notin Range(m.elements)
                     /\ \A j \in 1..(k - 1) : refs[j] # refs[k]
                  THEN <<refs[k]>> ELSE <<>>
  IN m.elements \o extra(1) \o extra(2) \o extra(3) \o extra(4)

Renamed(order, o) ==
  IF o = 0 THEN 0 ELSE CHOOSE k \in 1..Len(order) : order[k] = o

collectGarbage(m) ==
  LET order == Roots(m)
  IN [m EXCEPT !.heap = [k \in 1..Len(order) |-> m.heap[order[k]]],
               !.elements = [k \in 1..Len(m.elements) |-> k],
               !.state.draggingElement = Renamed(order, @),
               !.state.resizingElement = Renamed(order, @),
               !.state.multiElement = Renamed(order, @),
               !.gesture.hitElement = Renamed(order, @)]

Becomes(m) ==
  \E c \in {collectGarbage(x) : x \in {m}} :
     /\ SetHistory(c.h)
     /\ elements' = c.elements
     /\ heap' = c.heap
     /\ state' = c.state
     /\ gesture' = c.gesture

(***************************************************************************)
(* Spec: the App from the moment it is mounted on an empty local storage   *)
(* (loadScene has called setState, and componentDidUpdate has pushed the   *)
(* first entry), under any sequence of key and pointer events.             *)
(***************************************************************************)
MaxEvents == 8     \* events dispatched in a behaviour of Spec

Positions == {<<0, 0>>, <<30, 40>>}
ArrowKeys == {"ArrowRight", "ArrowDown"}
Shapes == {"selection", "rectangle"}

Mounted ==
  setState([h |-> [recording |-> TRUE, stateHistory |-> <<>>,
                   redoStack |-> <<>>],
            elements |-> <<>>, heap |-> <<>>, state |-> getDefaultAppState,
            gesture |-> NoGesture],
           NoPatch)

\* the history and the committed scene before an event
PreOf(m) == [recording |-> m.h.recording, stateHistory |-> m.h.stateHistory,
             redoStack |-> m.h.redoStack, entry |-> Snapshot(m),
             elementType |-> m.state.elementType]

KeyDownArrow(key, shiftKey) ==
  /\ Becomes(onKeyDownArrow(Machine, key, shiftKey))
  /\ call' = [NoCall EXCEPT !.op = "keyDown"]
  /\ UNCHANGED <<zElements, zIndices, zResult, fnVars>>

KeyDownShape(shape) ==
  /\ Becomes(onKeyDownShape(Machine, shape))
  /\ call' = [NoCall EXCEPT !.op = "keyDown"]
  /\ UNCHANGED <<zElements, zIndices, zResult, fnVars>>

KeyDownUndo ==
  /\ Becomes(onKeyDownUndo(Machine))
  /\ call' = [NoCall EXCEPT !.op = "keyDown"]
  /\ UNCHANGED <<zElements, zIndices, zResult, fnVars>>

KeyDownRedo ==
  /\ Becomes(onKeyDownRedo(Machine))
  /\ call' = [NoCall EXCEPT !.op = "keyDown"]
  /\ UNCHANGED <<zElements, zIndices, zResult, fnVars>>

MouseDown(p) ==
  /\ ~ gesture.lastMouseUp
  /\ Becomes(onMouseDown(Machine, p, Null))
  /\ call' = [op |-> "mouseDown", ret |-> Null, arg |-> p,
              pre |-> PreOf(Machine)]
  /\ UNCHANGED <<zElements, zIndices, zResult, fnVars>>

MouseMove(p) ==
  /\ gesture.lastMouseUp
  /\ Becomes(onMouseMove(Machine, p))
  /\ call' = [NoCall EXCEPT !.op = "mouseMove"]
  /\ UNCHANGED <<zElements, zIndices, zResult, fnVars>>

\* a mouse-up that follows the mouse-down directly and at the same position
\* is recorded as a click, together with what preceded the mouse-down
MouseUp(p) ==
  /\ gesture.lastMouseUp
  /\ Becomes(onMouseUp(Machine, p))
  /\ call' = IF call.op = "mouseDown" /\ call.arg = p
             THEN [op |-> "click", ret |-> Null, arg |-> p, pre |-> call.pre]
             ELSE [NoCall EXCEPT !.op = "mouseUp"]
  /\ UNCHANGED <<zElements, zIndices, zResult, fnVars>>

\* Spec dispatches at most MaxEvents events
Tick == /\ clock < MaxEvents
        /\ clock' = clock + 1
        /\ UNCHANGED scenario

ArrowKey ==
  /\ \E key \in ArrowKeys, shiftKey \in BOOLEAN : KeyDownArrow(key, shiftKey)
  /\ Tick

ToolKey ==
  /\ \E shape \in Shapes : KeyDownShape(shape)
  /\ Tick

Undo ==
  /\ KeyDownUndo
  /\ Tick

Redo ==
  /\ KeyDownRedo
  /\ Tick

PointerDown ==
  /\ \E p \in Positions : MouseDown(p)
  /\ Tick

PointerMove ==
  /\ \E p \in Positions : MouseMove(p)
  /\ Tick

PointerUp ==
  /\ \E p \in Positions : MouseUp(p)
  /\ Tick

InitApp ==
  LET m == collectGarbage(Mounted)
  IN /\ recording = m.h.recording
     /\ stateHistory = m.h.stateHistory
     /\ redoStack = m.h.redoStack
     /\ elements = m.elements
     /\ heap = m.heap
     /\ state = m.state
     /\ gesture = m.gesture
     /\ call = NoCall
     /\ ZIdle
     /\ FnIdle

Init == InitApp /\ scenario = <<>> /\ clock = 0

Next == \/ ArrowKey
        \/ ToolKey
        \/ Undo
        \/ Redo
        \/ PointerDown
        \/ PointerMove
        \/ PointerUp

Spec == Init /\ [][Next]_vars

IsPrefix(s, t) == Len(s) <= Len(t) /\ \A k \in 1..Len(s) : s[k] = t[k]

\* C7: between the pointer-down and the pointer-up of a gesture no step
\* pushes an entry onto the undo stack, whatever key is pressed meanwhile;
\* and no entry of the undo stack ever holds the selection pseudo-element or
\* the element that is being drawn.
C7_Original ==
  [][/\ (gesture.lastMouseUp /\ gesture'.lastMouseUp)
          => IsPrefix(stateHistory', stateHistory)
     /\ \A k \in 1..Len(stateHistory') :
          \A j \in 1..Len(stateHistory'[k].doc.elements) :
            LET el == stateHistory'[k].doc.elements[j]
            IN /\ el.type # "selection"
               /\ (gesture'.lastMouseUp /\ state'.draggingElement # 0)
                    => el.id # heap'[state'.draggingElement].id]_vars

\* C8: with the rectangle tool, after a pointer-down directly followed by a
\* pointer-up at the same position the scene's elements, the undo stack and
\* the redo stack are what they were before the pointer-down, whatever the
\* history held.
C8_Original ==
  (call.op = "click" /\ call.pre.elementType = "rectangle") =>
    /\ JSONparse(Snapshot(Machine)).elements
         = JSONparse(call.pre.entry).elements
    /\ stateHistory = call.pre.stateHistory
    /\ redoStack = call.pre.redoStack

\* what the claim lets a snapshot depend on: the fields of the elements
\* other than the selection flag and the cached shape, and the allow-listed
\* fields of the app state
Core(m) ==
  [appState |-> pickAppStatePropertiesForHistory(m.state),
   elements |-> [k \in 1..Len(m.elements) |->
                   Without(Without(Objects(m)[k], "isSelected"), "shape")]]

\* C14: two states that differ only in selection flags, cached shapes or
\* app state outside the allow list have the same snapshot, and an event
\* that changes nothing else (no undo, no redo) adds no entry to the undo
\* stack.
C14_Original ==
  [][Core(Machine)' = Core(Machine) =>
       /\ Snapshot(Machine)' = Snapshot(Machine)
       /\ (ArrowKey \/ ToolKey \/ PointerDown \/ PointerMove \/ PointerUp)
            => IsPrefix(stateHistory', stateHistory)]_vars

(***************************************************************************)
(* SpecC1: the same App and the same events, with a record of the undos,   *)
(* the redos and the edits (the other events that change the undo stack):  *)
(* the value undoOnce or redoOnce returned, the snapshot of the scene      *)
(* after the event, whether the redo stack was empty then, and whether the *)
(* event left the scene and both stacks as they were.  The events are any  *)
(* that keep the record within one of two scripts: three edits, three      *)
(* undos, three redos; or three edits, an undo, an edit, a redo.  Events   *)
(* that commit nothing may happen anywhere.                                *)
(***************************************************************************)
UndoRedoScript ==
  <<"edit", "edit", "edit", "undo", "undo", "undo", "redo", "redo", "redo">>

UndoEditScript == <<"edit", "edit", "edit", "undo", "edit", "redo">>

Kinds(sc) == [k \in 1..(Len(sc) - 1) |-> sc[k + 1].ev]

OnScript(sc) == \/ IsPrefix(Kinds(sc), UndoRedoScript)
                \/ IsPrefix(Kinds(sc), UndoEditScript)

MaxScenarioEvents == 12   \* events dispatched in a behaviour of SpecC1

ScenarioTick == /\ clock < MaxScenarioEvents
                /\ clock' = clock + 1

Observe(ev, ret) ==
  /\ scenario' = Append(scenario,
                        [ev |-> ev, ret |-> ret,
                         snap |-> Snapshot(Machine)',
                         redoEmpty |-> redoStack' = <<>>,
                         unchanged |->
                           /\ Snapshot(Machine)' = Snapshot(Machine)
                           /\ stateHistory' = stateHistory
                           /\ redoStack' = redoStack])
  /\ OnScript(scenario')

ObserveOther ==
  /\ IF stateHistory' # stateHistory THEN Observe("edit", Null)
     ELSE UNCHANGED scenario
  /\ ScenarioTick

ScenarioArrowKey ==
  /\ \E key \in ArrowKeys : KeyDownArrow(key, FALSE)
  /\ ObserveOther

ScenarioToolKey ==
  /\ \E shape \in Shapes : KeyDownShape(shape)
  /\ ObserveOther

ScenarioUndo ==
  /\ KeyDownUndo
  /\ Observe("undo", undoOnce(History).ret)
  /\ ScenarioTick

ScenarioRedo ==
  /\ KeyDownRedo
  /\ Observe("redo", redoOnce(History).ret)
  /\ ScenarioTick

ScenarioPointerDown ==
  /\ \E p \in Positions : MouseDown(p)
  /\ ObserveOther

ScenarioPointerMove ==
  /\ \E p \in Positions : MouseMove(p)
  /\ ObserveOther

ScenarioPointerUp ==
  /\ \E p \in Positions : MouseUp(p)
  /\ ObserveOther

InitC1 ==
  /\ InitApp
  /\ scenario = <<[ev |-> "start", ret |-> Null,
                   snap |-> Snapshot(Mounted), redoEmpty |-> TRUE,
                   unchanged |-> TRUE]>>
  /\ clock = 0

NextC1 == \/ ScenarioArrowKey
          \/ ScenarioToolKey
          \/ ScenarioUndo
          \/ ScenarioRedo
          \/ ScenarioPointerDown
          \/ ScenarioPointerMove
          \/ ScenarioPointerUp

SpecC1 == InitC1 /\ [][NextC1]_vars

\* the state after the k-th recorded event, 0 being the pre-edit state
StateAfter(k) == scenario[k + 1].snap

PairwiseDifferentEdits ==
  \A a, b \in 0..3 : a # b => StateAfter(a) # StateAfter(b)

\* the undo or redo recorded as event k restored the state after event j
Restored(k, j) ==
  /\ scenario[k + 1].ret = Some(JSONparse(StateAfter(j)))
  /\ StateAfter(k) = StateAfter(j)

\* C1: starting from a committed state, after three committed edits with
\* pairwise different snapshots, three undos restore the state after edit 2,
\* the state after edit 1 and the pre-edit state, and three redos then
\* restore the states after edits 1, 2 and 3; an edit committed after a
\* single undo empties the redo stack, and the next redo returns null and
\* changes nothing.
C1_UndoRedo ==
  LET n == Len(scenario) - 1
      kinds == Kinds(scenario)
  IN (n >= 4 /\ PairwiseDifferentEdits) =>
       /\ Restored(4, 2)
       /\ (n >= 5 /\ kinds[5] = "undo") => Restored(5, 1)
       /\ (n >= 6 /\ kinds[6] = "undo") => Restored(6, 0)
       /\ (n >= 7 /\ kinds[7] = "redo") => Restored(7, 1)
       /\ (n >= 8) => Restored(8, 2)
       /\ (n >= 9) => Restored(9, 3)
       /\ (n >= 5 /\ kinds[5] = "edit") => scenario[6].redoEmpty
       /\ (n >= 6 /\ kinds[5] = "edit") =>
            /\ scenario[7].ret = Null
            /\ scenario[7].unchanged

C1_Witness ==
  /\ Kinds(scenario) = UndoRedoScript
  /\ PairwiseDifferentEdits
  /\ Restored(9, 3)
  /\ gesture = NoGesture

(***************************************************************************)
(* SpecRestore: restore of src/src/data/restore.ts applied to a scene that *)
(* went through the scene JSON.  The scenes hold up to MaxScene elements:  *)
(* rectangles, arrows and the selection pseudo-element, of size 0 or       *)
(* ElementSize, soft-deleted or not, selected or not.  Text elements (the  *)
(* font migration) and opts.scrollToContent are left out.                  *)
(***************************************************************************)
MaxScene == 2

ElementSize == 20

\* an element as the scene holds it
SceneElement(id, type, size, isDeleted, isSelected) ==
  LET common == [id |-> id, type |-> type, x |-> 10, y |-> 10,
                 width |-> size, height |-> size, isSelected |-> isSelected,
                 isDeleted |-> isDeleted, version |-> 2,
                 fillStyle |-> "solid", strokeWidth |-> 2,
                 strokeStyle |-> "dashed", roughness |-> 0, opacity |-> 0,
                 angle |-> 0, groupIds |-> <<>>,
                 shape |-> <<size, size>>]
  IN IF type = "arrow"
     THEN With(common, "points", <<<<0, 0>>, <<size, size>>>>)
     ELSE common

SceneElements(id) ==
  {SceneElement(id, type, size, isDeleted, isSelected) :
     type \in {"rectangle", "arrow", "selection"}, size \in {0, ElementSize},
     isDeleted \in BOOLEAN, isSelected \in BOOLEAN}

Scenes ==
  UNION {{sc \in [1..n -> UNION {SceneElements(Labels[k]) : k \in 1..n}] :
            \A k \in 1..n : sc[k].id = Labels[k]} : n \in 0..MaxScene}

\* the scene JSON: every field of every element but the cached shape and
\* the selection flag
serializeAsJSON(elems) ==
  JSONstringify(
    [version |-> 1, source |-> "whiteboard",
     elements |-> [k \in 1..Len(elems) |->
                     Without(Without(elems[k], "shape"), "isSelected")]])

\* element[f] || d for a number
OrNumber(element, f, d) ==
  IF f \notin DOMAIN element THEN d
  ELSE IF element[f] = 0 THEN d ELSE element[f]

\* element[f] || d for a string
OrString(element, f, d) ==
  IF f \notin DOMAIN element THEN d
  ELSE IF element[f] = "" THEN d ELSE element[f]

\* element[f] ?? d, and element[f] || d for an array
Coalesce(element, f, d) ==
  IF f \notin DOMAIN element THEN d ELSE element[f]

\* the body of savedElements.map in restore, up to the returned object
migrateElement(element) ==
  IF element.type = "arrow" THEN
    With(element, "points",
         IF "points" \in DOMAIN element
         THEN IF Len(element.points) > 0 THEN element.points
              ELSE <<<<0, 0>>>>
         ELSE <<<<0, 0>>, <<element.width, element.height>>>>)
  ELSE IF element.type \in {"line", "draw"} THEN
    With(element, "points",
         IF "points" \notin DOMAIN element
         THEN <<<<0, 0>>, <<element.width, element.height>>>>
         ELSE IF Len(element.points) = 0
              THEN <<<<0, 0>>, <<element.width, element.height>>>>
              ELSE element.points)
  ELSE Without(normalizeDimensions(element).element, "points")

\* the object savedElements.map returns; randomId() is the id "random"
restoreElement(element) ==
  LET e == migrateElement(element)
      defaults ==
        [version |-> OrNumber(e, "version", 1),
         id |-> OrString(e, "id", "random"),
         isDeleted |-> FALSE,
         fillStyle |-> OrString(e, "fillStyle", "hachure"),
         strokeWidth |-> OrNumber(e, "strokeWidth", 1),
         strokeStyle |-> Coalesce(e, "strokeStyle", "solid"),
         roughness |-> Coalesce(e, "roughness", 1),
         opacity |-> Coalesce(e, "opacity", 100),
         angle |-> Coalesce(e, "angle", 0),
         groupIds |-> Coalesce(e, "groupIds", <<>>)]
  IN [f \in DOMAIN e \cup DOMAIN defaults |->
        IF f \in DOMAIN defaults THEN defaults[f] ELSE e[f]]

restore(savedElements, savedState) ==
  LET kept == SelectSeq(savedElements,
                        LAMBDA el : /\ el.type # "selection"
                                    /\ ~isInvisiblySmallElement(el))
  IN [elements |-> [k \in 1..Len(kept) |-> restoreElement(kept[k])],
      appState |-> savedState]

InitRestore == /\ HistoryIdle
               /\ call = NoCall
               /\ ZIdle
               /\ AppIdle
               /\ args \in {[elements |-> sc] : sc \in Scenes}
               /\ result = <<>>
               /\ globalSceneState = GlobalScene
               /\ pointer = PointerIdle

\* the scene is written as JSON, read back and restored
CallRestore ==
  /\ call.op = "none"
  /\ result' = restore(JSONparse(serializeAsJSON(args.elements)).elements,
                       Null).elements
  /\ call' = [NoCall EXCEPT !.op = "restore"]
  /\ UNCHANGED <<recording, stateHistory, redoStack, zElements, zIndices,
               zResult, appVars, args, globalSceneState, pointer>>

NextRestore == CallRestore

SpecRestore == InitRestore /\ [][NextRestore]_vars

\* C15: for any scene, the elements written as JSON and restored are as
\* many as in the scene, in the same order, and equal to the scene's in
\* every field but the cached shape and the selection flag.
C15_Original ==
  call.op = "restore" =>
    /\ Len(result) = Len(args.elements)
    /\ \A k \in 1..Len(result) :
         Without(Without(result[k], "shape"), "isSelected")
           = Without(Without(args.elements[k], "shape"), "isSelected")

(***************************************************************************)
(* SpecDraw: the App with the arrow tool and the resize handles.  A        *)
(* behaviour starts when a rectangle has been drawn, when an arrow has     *)
(* been dragged, or when an arrow of three points has been clicked and     *)
(* selected with the selection box: the initial states are what the        *)
(* handlers make of these events on the mounted App.  From there at most   *)
(* MaxDrawEvents events follow: a pointer-down on a resize handle of the   *)
(* selected element or elsewhere, pointer moves, a pointer-up, arrow keys. *)
(* The pointer moves by multiples of Step, which keeps the shares of the   *)
(* points of an arrow of up to three points whole.                         *)
(***************************************************************************)
MaxDrawEvents == 4

Step == 6

minimumSize == 40

handleOffset == 8

\* the handles the selected element shows: two corners for an arrow of two
\* points; else four corners, and the handles of the edges that are long
\* enough
handlerRectangles(element) ==
  LET c == getElementAbsoluteCoords(element)
  IN IF element.type \in {"arrow", "line"} /\ Len(element.points) = 2
     THEN {"nw", "se"}
     ELSE {"nw", "ne", "sw", "se"}
            \cup (IF distance(c[3], c[1]) > minimumSize
                  THEN {"n", "s"} ELSE {})
            \cup (IF distance(c[4], c[2]) > minimumSize
                  THEN {"w", "e"} ELSE {})

\* what getElementWithResizeHandler can return but null: a handle of the
\* one selected element
getElementWithResizeHandler(m) ==
  LET selected == {o \in Range(m.elements) : m.heap[o].isSelected}
  IN IF Cardinality(selected) # 1 THEN {}
     ELSE {[element |-> o, resizeHandle |-> hd] :
             o \in selected, hd \in handlerRectangles(m.heap[CHOOSE o \in selected : TRUE])}

\* the middle of a handle
handlePosition(element, resizeHandle) ==
  LET c == getElementAbsoluteCoords(element)
      midX == (c[1] + c[3]) \div 2
      midY == (c[2] + c[4]) \div 2
      west == c[1] - handleOffset
      east == c[3] + handleOffset
      north == c[2] - handleOffset
      south == c[4] + handleOffset
  IN CASE resizeHandle = "nw" -> <<west, north>>
       [] resizeHandle = "ne" -> <<east, north>>
       [] resizeHandle = "sw" -> <<west, south>>
       [] resizeHandle = "se" -> <<east, south>>
       [] resizeHandle = "n" -> <<midX, north>>
       [] resizeHandle = "s" -> <<midX, south>>
       [] resizeHandle = "w" -> <<west, midY>>
       [] OTHER -> <<east, midY>>

\* one event on the App
dispatch(m, event) ==
  CASE event.type = "keydown" -> onKeyDownShape(m, event.shape)
    [] event.type = "change" -> onChangeTool(m, event.value)
    [] event.type = "mousedown" -> onMouseDown(m, event.p, Null)
    [] event.type = "mousemove" -> onMouseMove(m, event.p)
    [] OTHER -> onMouseUp(m, event.p)

\* the events one after the other
RECURSIVE dispatchAll(_, _)
dispatchAll(m, events) ==
  IF events = <<>> THEN m
  ELSE Only({dispatchAll(next, Tail(events)) :
               next \in {collectGarbage(dispatch(m, Head(events)))}})

Click(p) == <<[type |-> "mousedown", p |-> p], [type |-> "mouseup", p |-> p]>>

Drag(p, q) == <<[type |-> "mousedown", p |-> p],
                [type |-> "mousemove", p |-> q],
                [type |-> "mouseup", p |-> q]>>

\* a rectangle is drawn; it ends up selected
RectangleDrawn ==
  <<[type |-> "keydown", shape |-> "rectangle"]>>
    \o Drag(<<0, 0>>, <<10 * Step, 8 * Step>>)

\* an arrow is dragged; it ends up selected
ArrowDragged ==
  <<[type |-> "keydown", shape |-> "arrow"]>>
    \o Drag(<<0, 0>>, <<10 * Step, 8 * Step>>)

\* an arrow of three points is clicked, the selection tool is picked in the
\* tool bar and the selection box is drawn around the arrow
ArrowClicked ==
  <<[type |-> "keydown", shape |-> "arrow"]>>
    \o Click(<<0, 0>>) \o Click(<<10 * Step, 10 * Step>>)
    \o Click(<<20 * Step, 0>>)
    \o <<[type |-> "change", value |-> "selection"]>>
    \o Drag(<<-4 * Step, -4 * Step>>, <<24 * Step, 14 * Step>>)

Deltas == {<<2 * Step, Step>>, <<-11 * Step, -9 * Step>>, <<-Step, 0>>}

DrawPositions == {<<0, 0>>, <<30 * Step, 30 * Step>>}

InitDraw ==
  /\ \E m \in {dispatchAll(collectGarbage(Mounted), events) :
                events \in {RectangleDrawn, ArrowDragged, ArrowClicked}} :
          /\ recording = m.h.recording
          /\ stateHistory = m.h.stateHistory
          /\ redoStack = m.h.redoStack
          /\ elements = m.elements
          /\ heap = m.heap
          /\ state = m.state
          /\ gesture = m.gesture
  /\ call = NoCall
  /\ ZIdle
  /\ FnIdle
  /\ scenario = <<>>
  /\ clock = 0

\* SpecDraw dispatches at most MaxDrawEvents events
DrawTick == /\ clock < MaxDrawEvents
            /\ clock' = clock + 1
            /\ UNCHANGED scenario

\* a pointer-down in the middle of a resize handle, with the selection tool
MouseDownOnHandle ==
  /\ ~ gesture.lastMouseUp
  /\ state.elementType = "selection"
  /\ \E r \in getElementWithResizeHandler(Machine) :
       /\ Becomes(onMouseDown(Machine,
                              handlePosition(heap[r.element], r.resizeHandle),
                              Some(r)))
       /\ call' = [op |-> "mouseDown", ret |-> Null,
                   arg |-> handlePosition(heap[r.element], r.resizeHandle),
                   pre |-> PreOf(Machine)]
  /\ UNCHANGED <<zElements, zIndices, zResult, fnVars>>

DrawHandleDown ==
  /\ MouseDownOnHandle
  /\ DrawTick

DrawPointerDown ==
  /\ \E p \in DrawPositions : MouseDown(p)
  /\ DrawTick

DrawPointerMove ==
  /\ \E d \in Deltas : MouseMove(<<gesture.lastX + d[1], gesture.lastY + d[2]>>)
  /\ DrawTick

DrawPointerUp ==
  /\ MouseUp(<<gesture.lastX, gesture.lastY>>)
  /\ DrawTick

DrawArrowKey ==
  /\ \E key \in ArrowKeys : KeyDownArrow(key, FALSE)
  /\ DrawTick

NextDraw == \/ DrawHandleDown
            \/ DrawPointerDown
            \/ DrawPointerMove
            \/ DrawPointerUp
            \/ DrawArrowKey

SpecDraw == InitDraw /\ [][NextDraw]_vars

(***************************************************************************)
(* A resize step: a pointer move while the handle of the one selected       *)
(* element is held.  ResizedIndex is the place of that element in the      *)
(* scene, RawResize what the switch on the handle makes of it before       *)
(* normalizeDimensions runs.                                                *)
(***************************************************************************)
BoxLike == {"rectangle", "ellipse", "diamond", "text"}

ResizeStep ==
  /\ call'.op = "mouseMove"
  /\ gesture.lastMouseUp
  /\ gesture.isResizingElements
  /\ state.resizingElement # 0
  /\ Cardinality({k \in 1..Len(elements) : heap[elements[k]].isSelected}) = 1

ResizedIndex ==
  CHOOSE k \in 1..Len(elements) : heap[elements[k]].isSelected

RawResize ==
  resizeSwitch(heap[elements[ResizedIndex]], gesture.resizeHandle,
               gesture.resizeArrowFn,
               gesture'.lastX - gesture.lastX, gesture'.lastY - gesture.lastY)

Corners(element) ==
  {<<element.x + a * element.width, element.y + b * element.height>> :
     a, b \in {0, 1}}

\* C16: after every resize step on a box-like element its width and height
\* are not negative, and its four corners are those the step gave it before
\* it was normalized
C16_ResizeNormalized ==
  [][ResizeStep /\ heap[elements[ResizedIndex]].type \in BoxLike =>
       LET after == heap'[elements'[ResizedIndex]]
       IN /\ Len(elements') = Len(elements)
          /\ after.width >= 0
          /\ after.height >= 0
          /\ Corners(after) = Corners(RawResize)]_vars

\* a rectangle whose south-east handle has been dragged across its
\* north-west corner: the handle under the pointer is now "nw", and the
\* pointer is inside that corner
C16_Witness ==
  /\ call.op = "mouseMove"
  /\ gesture.lastMouseUp
  /\ gesture.isResizingElements
  /\ gesture.resizeHandle = "nw"
  /\ \E k \in 1..Len(elements) :
       LET element == heap[elements[k]]
       IN /\ element.type = "rectangle"
          /\ element.isSelected
          /\ element.width > 0
          /\ element.height > 0
          /\ gesture.lastX = element.x + handleOffset
          /\ gesture.lastY = element.y + handleOffset

\* C19: in every reachable state the first point of every arrow or line of
\* the scene is <<0, 0>>
C19_Original ==
  \A k \in 1..Len(elements) :
    LET element == heap[elements[k]]
    IN element.type \in {"arrow", "line"} /\ Len(element.points) > 0
         => element.points[1] = <<0, 0>>

\* C20: in no reachable state does an element of the scene hold a cached
\* shape that was computed from a geometry other than the one it has
C20_Original ==
  \A k \in 1..Len(elements) :
    LET element == heap[elements[k]]
    IN element.shape # NoShape => element.shape = shapeOf(element)

(***************************************************************************)
(* SpecHit: the position queries as pure functions,                        *)
(* src/src/element/collision.ts and src/src/scene/comparisons.ts.  The     *)
(* input is a scene of up to MaxHitScene rectangles, filled or not, live   *)
(* or soft-deleted, of width and height that are not negative as the       *)
(* handlers leave them, and a point on, around and away from their edges.  *)
(***************************************************************************)
MaxHitScene == 2

HitSize == 20

HitElements ==
  [type : {"rectangle"}, x : {0, HitSize \div 2}, y : {0},
   width : {0, HitSize}, height : {HitSize},
   backgroundColor : {"transparent", "#ffffff"},
   isDeleted : BOOLEAN]

HitScenes ==
  UNION {[1..n -> HitElements] : n \in 0..MaxHitScene}

\* the coordinates at both edges of the margin of lineThreshold around the
\* rectangles, at their edges and in between
HitXs ==
  {-lineThreshold - 1, -lineThreshold, -lineThreshold + 1, 0, 1,
   HitSize \div 2, HitSize, HitSize + lineThreshold - 1,
   HitSize + lineThreshold, HitSize + lineThreshold + 1,
   HitSize + HitSize \div 2 + lineThreshold}

HitYs ==
  {-lineThreshold - 1, -lineThreshold, -lineThreshold + 1, 0, 1,
   HitSize, HitSize + lineThreshold - 1, HitSize + lineThreshold,
   HitSize + lineThreshold + 1}

\* getElementAtPosition(elements, isAtPositionFn): the scene is scanned from
\* the front (the end of the array) to the back.  The element returned is
\* given by its place in the array, the callback by its value on each
\* element.
getElementAtPositionFn(elems, isAtPositionFn) ==
  LET RECURSIVE scan(_)
      scan(i) ==
        IF i < 1 THEN Null
        ELSE IF elems[i].isDeleted THEN scan(i - 1)
        ELSE IF isAtPositionFn[elems[i]] THEN Some([index |-> i])
        ELSE scan(i - 1)
  IN scan(Len(elems))

\* the scan that does not skip the soft-deleted elements
getElementContainingPositionWithDeleted(elems, x, y) ==
  LET RECURSIVE scan(_)
      scan(i) ==
        IF i < 1 THEN Null
        ELSE LET c == getElementAbsoluteCoords(elems[i])
             IN IF c[1] < x /\ x < c[3] /\ c[2] < y /\ y < c[4]
                THEN Some([index |-> i])
                ELSE scan(i - 1)
  IN scan(Len(elems))

getElementContainingPosition(elems, x, y) ==
  LET RECURSIVE scan(_)
      scan(i) ==
        IF i < 1 THEN Null
        ELSE IF elems[i].isDeleted THEN scan(i - 1)
        ELSE LET c == getElementAbsoluteCoords(elems[i])
             IN IF c[1] < x /\ x < c[3] /\ c[2] < y /\ y < c[4]
                THEN Some([index |-> i])
                ELSE scan(i - 1)
  IN scan(Len(elems))

InitHit == /\ HistoryIdle
           /\ call = NoCall
           /\ ZIdle
           /\ AppIdle
           /\ args \in [elements : HitScenes, x : HitXs, y : HitYs]
           /\ result = <<>>
           /\ globalSceneState = GlobalScene
           /\ pointer = PointerIdle

HitUnchanged ==
  UNCHANGED <<recording, stateHistory, redoStack, zElements, zIndices,
              zResult, appVars, args, globalSceneState, pointer>>

CallHitTest ==
  /\ call.op = "none"
  /\ \E k \in 1..Len(args.elements) :
       result' = [index |-> k,
                  value |-> hitTest(args.elements[k], args.x, args.y)]
  /\ call' = [NoCall EXCEPT !.op = "hitTest"]
  /\ HitUnchanged

CallGetElementAtPosition ==
  /\ call.op = "none"
  /\ result' = getElementAtPositionFn(
                 args.elements,
                 [element \in Range(args.elements) |->
                    hitTest(element, args.x, args.y)])
  /\ call' = [NoCall EXCEPT !.op = "getElementAtPosition"]
  /\ HitUnchanged

CallGetElementContainingPosition ==
  /\ call.op = "none"
  /\ result' = getElementContainingPosition(args.elements, args.x, args.y)
  /\ call' = [NoCall EXCEPT !.op = "getElementContainingPosition"]
  /\ HitUnchanged

NextHit == \/ CallHitTest
           \/ CallGetElementAtPosition
           \/ CallGetElementContainingPosition

SpecHit == InitHit /\ [][NextHit]_vars

\* the bounds of a rectangle, widened by d on each side
Expanded(element, d) ==
  <<element.x - d, element.y - d,
    element.x + element.width + d, element.y + element.height + d>>

\* C17: for a rectangle with a background, hitTest is true at every point
\* strictly inside its bounds widened by 10 on each side, and false at
\* every point that is more than 10 beyond a side of its bounds
C17_HitTestFilled ==
  call.op = "hitTest" =>
    LET element == args.elements[result.index]
        b == Expanded(element, 10)
    IN element.backgroundColor # "transparent" =>
         /\ (b[1] < args.x /\ args.x < b[3] /\ b[2] < args.y /\ args.y < b[4])
              => result.value
         /\ (args.x < b[1] \/ args.x > b[3] \/ args.y < b[2] \/ args.y > b[4])
              => ~ result.value

\* a hit in the margin: the point is outside the bounds of the filled
\* rectangle, to the left and above, and inside the widened bounds
C17_Witness ==
  /\ call.op = "hitTest"
  /\ result.value
  /\ LET element == args.elements[result.index]
     IN /\ element.backgroundColor # "transparent"
        /\ args.x < element.x
        /\ args.y < element.y

\* the elements a query may return: live, and at the position
Candidates(test(_)) ==
  {k \in 1..Len(args.elements) :
     ~ args.elements[k].isDeleted /\ test(args.elements[k])}

Contains(element) ==
  /\ element.x < args.x
  /\ args.x < element.x + element.width
  /\ element.y < args.y
  /\ args.y < element.y + element.height

Hits(element) == hitTest(element, args.x, args.y)

Topmost(S) ==
  IF S = {} THEN Null ELSE Some([index |-> Max(S)])

\* C18: both queries return the element of the highest index among those
\* that are not soft-deleted and pass the position test, and null when
\* there is none
C18_TopmostLive ==
  /\ call.op = "getElementAtPosition" => result = Topmost(Candidates(Hits))
  /\ call.op = "getElementContainingPosition"
       => result = Topmost(Candidates(Contains))

\* a soft-deleted rectangle lies over a live one at the position, and the
\* query returns the live one
C18_Witness ==
  /\ call.op = "getElementContainingPosition"
  /\ Len(args.elements) = 2
  /\ args.elements[2].isDeleted
  /\ Contains(args.elements[2])
  /\ result = Some([index |-> 1])

(***************************************************************************)
(* SpecLoaded: the App mounted on a local storage that holds a scene of    *)
(* one rectangle.  loadScene installs the elements that restore returned,  *)
(* which carry a version of 1 or more (src/src/data/restore.ts 104), and   *)
(* the events of SpecDraw follow.                                          *)
(***************************************************************************)
LoadedSize == 40

\* the rectangle as restore returns it
LoadedRectangle ==
  [newElement("rectangle", 0, 0, "transparent", 1) EXCEPT
     !.width = LoadedSize, !.height = LoadedSize]
    @@ [version |-> 1, isDeleted |-> FALSE]

\* elements = data.elements; this.setState({})
loadScene ==
  setState([h |-> [recording |-> TRUE, stateHistory |-> <<>>,
                   redoStack |-> <<>>],
            elements |-> <<1>>, heap |-> <<LoadedRectangle>>,
            state |-> getDefaultAppState, gesture |-> NoGesture],
           NoPatch)

InitLoaded ==
  /\ \E m \in {collectGarbage(loadScene)} :
       /\ recording = m.h.recording
       /\ stateHistory = m.h.stateHistory
       /\ redoStack = m.h.redoStack
       /\ elements = m.elements
       /\ heap = m.heap
       /\ state = m.state
       /\ gesture = m.gesture
  /\ call = NoCall
  /\ ZIdle
  /\ FnIdle
  /\ scenario = <<>>
  /\ clock = 0

SpecLoaded == InitLoaded /\ [][NextDraw]_vars

\* what of an element is drawn
Geometry(element) ==
  <<element.x, element.y, element.width, element.height, element.points>>

\* C21: the version of an element of the scene never decreases from one
\* state to the next, and is greater in the next state whenever the
\* element's geometry has changed; said of the elements that carry a
\* version
C21_Original ==
  [][\A k \in 1..Len(elements), j \in 1..Len(elements') :
       LET before == heap[elements[k]]
           after == heap'[elements'[j]]
       IN /\ before.id = after.id
          /\ "version" \in DOMAIN before
          /\ "version" \in DOMAIN after
          => /\ after.version >= before.version
             /\ Geometry(after) # Geometry(before)
                  => after.version > before.version]_vars

\* C22: once the pointer-up of a gesture other than the placing of an arrow
\* has been handled, draggingElement and resizingElement are null, the
\* listeners are removed and the closure of the gesture is reset
C22_Original ==
  call.op \in {"mouseUp", "click"} /\ state.elementType # "arrow" =>
    /\ state.draggingElement = 0
    /\ state.resizingElement = 0
    /\ gesture = NoGesture

(***************************************************************************)
(* SpecGesture: one pointer gesture, event by event.  scenario holds the   *)
(* events of the gesture, clock how many of them have been dispatched, and *)
(* args the tool and the elements of the scene before the gesture.  The    *)
(* gestures are the drag of a box tool on the empty scene and on a scene   *)
(* of one rectangle, the drag of the arrow tool and of the line tool with  *)
(* pointer moves below and at the dragging threshold, and the move of the  *)
(* selection of a scene of two rectangles along a path of one or two       *)
(* pointer moves.                                                          *)
(***************************************************************************)
GesturePoints == {<<30, 20>>, <<60, 70>>, <<0, 70>>}

\* offsets from the pointer-down position that are closer than
\* DRAGGING_THRESHOLD, and one that is exactly as far
NearOffsets == {<<6, 0>>, <<0, -9>>, <<-7, 7>>}

ThresholdOffsets == {<<6, 8>>, <<-10, 0>>}

DownEvent(p) == <<[type |-> "mousedown", p |-> p]>>

MoveEvent(p) == <<[type |-> "mousemove", p |-> p]>>

UpEvent(p) == <<[type |-> "mouseup", p |-> p]>>

Plus(p, d) == <<p[1] + d[1], p[2] + d[2]>>

BoxGestures == {Drag(p, q) : p, q \in GesturePoints}

ArrowGesturesFrom(p) ==
  {DownEvent(p) \o near \o MoveEvent(q) \o UpEvent(q) :
     q \in GesturePoints \cup {Plus(p, d) : d \in ThresholdOffsets},
     near \in {<<>>} \cup {MoveEvent(Plus(p, d)) : d \in NearOffsets}}

ArrowGestures == UNION {ArrowGesturesFrom(p) : p \in GesturePoints}

\* two rectangles, the second one selected, or both
TwoRectangles ==
  RectangleDrawn
    \o <<[type |-> "keydown", shape |-> "rectangle"]>>
    \o Drag(<<100, 0>>, <<160, 48>>)

BothSelected == TwoRectangles \o Drag(<<-24, -24>>, <<184, 72>>)

MoveGestures ==
  {DownEvent(p) \o path \o UpEvent(Last(path).p) :
     p \in {<<0, 0>>, <<100, 0>>},
     path \in {MoveEvent(q) : q \in GesturePoints}
               \cup {MoveEvent(q) \o MoveEvent(r) : q, r \in GesturePoints}}

GestureStarts ==
  {[kind |-> "box", tool |-> tool,
    events |-> scene \o <<[type |-> "keydown", shape |-> tool]>>,
    gestures |-> BoxGestures] :
     tool \in {"rectangle", "ellipse", "diamond"},
     scene \in {<<>>, RectangleDrawn}}
  \cup {[kind |-> "arrow", tool |-> tool,
         events |-> <<[type |-> "keydown", shape |-> tool]>>,
         gestures |-> ArrowGestures] : tool \in {"arrow", "line"}}
  \cup {[kind |-> "move", tool |-> "selection", events |-> events,
         gestures |-> MoveGestures] : events \in {TwoRectangles, BothSelected}}

InitGesture ==
  /\ \E start \in GestureStarts :
       /\ \E m \in {dispatchAll(collectGarbage(Mounted), start.events)} :
            /\ recording = m.h.recording
            /\ stateHistory = m.h.stateHistory
            /\ redoStack = m.h.redoStack
            /\ elements = m.elements
            /\ heap = m.heap
            /\ state = m.state
            /\ gesture = m.gesture
            /\ args = [kind |-> start.kind, tool |-> start.tool,
                        before |-> Objects(m)]
       /\ scenario \in start.gestures
  /\ result = <<>>
  /\ globalSceneState = GlobalScene
  /\ pointer = PointerIdle
  /\ call = NoCall
  /\ ZIdle
  /\ clock = 0

\* the next event of the gesture
GestureEvent == scenario[clock + 1]

GestureTick == /\ clock' = clock + 1
               /\ UNCHANGED scenario

GestureDown ==
  /\ clock < Len(scenario)
  /\ GestureEvent.type = "mousedown"
  /\ MouseDown(GestureEvent.p)
  /\ GestureTick

GestureMove ==
  /\ clock < Len(scenario)
  /\ GestureEvent.type = "mousemove"
  /\ MouseMove(GestureEvent.p)
  /\ GestureTick

GestureUp ==
  /\ clock < Len(scenario)
  /\ GestureEvent.type = "mouseup"
  /\ MouseUp(GestureEvent.p)
  /\ GestureTick

NextGesture == \/ GestureDown
               \/ GestureMove
               \/ GestureUp

SpecGesture == InitGesture /\ [][NextGesture]_vars

\* the gesture has been dispatched to its last event
GestureDone == clock = Len(scenario)

\* the position of the pointer-down and of the last pointer move dispatched
GestureOrigin == scenario[1].p

GestureLast ==
  LET moves == {k \in 1..clock : scenario[k].type = "mousemove"}
  IN IF moves = {} THEN GestureOrigin ELSE scenario[Max(moves)].p

Abs(n) == IF n < 0 THEN -n ELSE n

\* the scene is the scene before the gesture and one more element
OneAdded ==
  /\ Len(elements) = Len(args.before) + 1
  /\ \A k \in 1..Len(args.before) : heap[elements[k]].id = args.before[k].id

Added == heap[elements[Len(elements)]]

BoxAdded ==
  /\ OneAdded
  /\ Added.type = args.tool
  /\ Added.x = Min({GestureOrigin[1], GestureLast[1]})
  /\ Added.y = Min({GestureOrigin[2], GestureLast[2]})
  /\ Added.width = Abs(GestureLast[1] - GestureOrigin[1])
  /\ Added.height = Abs(GestureLast[2] - GestureOrigin[2])

\* C23 as stated: with a box tool, pointer-down at (x0,y0), pointer-move to
\* (x1,y1) and pointer-up add exactly one element of the tool's type with
\* x = min(x0,x1), y = min(y0,y1), width = |x1-x0| and height = |y1-y0|
C23_Original ==
  args.kind = "box" /\ GestureDone => BoxAdded

\* C23 amended: the same when (x1,y1) differs from (x0,y0); when the two are
\* equal the pointer-up removes the element and the scene is as before
C23_Amended ==
  args.kind = "box" /\ GestureDone =>
    IF GestureLast # GestureOrigin THEN BoxAdded
    ELSE Objects(Machine) = args.before

\* a box drawn from right to left and downwards
C23_Witness ==
  /\ args.kind = "box"
  /\ GestureDone
  /\ GestureLast[1] < GestureOrigin[1]
  /\ GestureLast[2] > GestureOrigin[2]
  /\ Len(elements) = Len(args.before) + 1

\* the pointer moves dispatched so far all stayed closer than 10 to the
\* pointer-down position
OnlyNearMoves ==
  \A k \in 1..clock :
    scenario[k].type = "mousemove" =>
      LET d == <<scenario[k].p[1] - GestureOrigin[1],
                 scenario[k].p[2] - GestureOrigin[2]>>
      IN d[1] * d[1] + d[2] * d[2] < 10 * 10

\* the element added by the gesture is at the pointer-down position and has,
\* as long as the pointer moves have stayed closer than 10, its first point
\* alone, and once the gesture is over after a move at least 10 away, the
\* points <<0,0>> and <<x1-x0, y1-y0>>
LinearAdded ==
  /\ OneAdded
  /\ Added.type = args.tool
  /\ Added.x = GestureOrigin[1]
  /\ Added.y = GestureOrigin[2]
  /\ OnlyNearMoves => Added.points = <<<<0, 0>>>>
  /\ GestureDone /\ ~ OnlyNearMoves =>
       Added.points = <<<<0, 0>>, <<GestureLast[1] - GestureOrigin[1],
                                    GestureLast[2] - GestureOrigin[2]>>>>

\* C24 as stated: with the arrow tool or the line tool, pointer-down at
\* (x0,y0), a pointer-move to a position (x1,y1) at least 10 away and
\* pointer-up add exactly one linear element with x = x0, y = y0 and the two
\* points <<0,0>> and <<x1-x0, y1-y0>>; pointer moves that stay closer than
\* 10 add no point
C24_Original ==
  args.kind = "arrow" /\ clock >= 1 => LinearAdded

\* the statement of C24 for the arrow tool alone
ArrowDrag ==
  args.kind = "arrow" /\ args.tool = "arrow" /\ clock >= 1 => LinearAdded

\* C30: over a move gesture every selected element is displaced by the last
\* pointer position minus the pointer-down position, whatever the pointer
\* moves in between, and the coordinates of the unselected elements are
\* those before the gesture (the elements are those of the scene before the
\* gesture: until the pointer-up the scene also holds the selection element
\* of the pointer-down)
C30_MoveDisplacement ==
  args.kind = "move" /\ clock >= 1 =>
    /\ Len(elements) >= Len(args.before)
    /\ \A k \in 1..Len(args.before) :
         LET element == heap[elements[k]]
             before == args.before[k]
         IN /\ element.id = before.id
            /\ element.x - before.x =
                 IF element.isSelected
                 THEN GestureLast[1] - GestureOrigin[1] ELSE 0
            /\ element.y - before.y =
                 IF element.isSelected
                 THEN GestureLast[2] - GestureOrigin[2] ELSE 0

\* two selected rectangles have been moved along a path of two pointer moves
\* that ends away from the pointer-down position
C30_Witness ==
  /\ args.kind = "move"
  /\ GestureDone
  /\ Len(scenario) = 4
  /\ GestureLast # GestureOrigin
  /\ scenario[2].p # GestureLast
  /\ \A k \in 1..Len(elements) : heap[elements[k]].isSelected
  /\ Len(elements) = 2

\* C27: once a resize gesture has chosen which end of a two-point arrow its
\* corner handle moves, no later pointer move of the gesture changes the
\* choice, whatever the sign of the free point and the handle have become;
\* the first resize move of the gesture makes the choice from the handle and
\* the free point, and only the pointer-up resets it
C27_ChoiceHeld ==
  [][/\ gesture.resizeArrowFn # "none"
          /\ gesture'.resizeArrowFn # gesture.resizeArrowFn
          => call'.op = "mouseUp" /\ gesture'.resizeArrowFn = "none"
     /\ gesture.resizeArrowFn = "none" /\ gesture'.resizeArrowFn # "none"
          => /\ ResizeStep
             /\ LET element == heap[elements[ResizedIndex]]
                IN /\ element.type = "arrow"
                   /\ Len(element.points) = 2
                   /\ gesture'.resizeArrowFn =
                        chooseResizeArrowFn(gesture.resizeHandle,
                                            element.points[2])]_vars

\* the free end of the arrow drawn from <<0, 0>> to <<10 * Step, 8 * Step>>
\* has been dragged twice by <<-11 * Step, -9 * Step>> with the south-east
\* handle: the first move took the free point to the negative side, where
\* the choice made anew would be the origin, and the second move still
\* moved the free end
C27_Witness ==
  /\ call.op = "mouseMove"
  /\ gesture.isResizingElements
  /\ gesture.resizeArrowFn = "arrowResizeEnd"
  /\ \E k \in 1..Len(elements) :
       LET element == heap[elements[k]]
       IN /\ element.type = "arrow"
          /\ element.isSelected
          /\ element.x = 0
          /\ element.y = 0
          /\ element.points = <<<<0, 0>>, <<-12 * Step, -10 * Step>>>>
          /\ chooseResizeArrowFn("se", <<-Step, -Step>>)
               # gesture.resizeArrowFn

\* the absolute coordinate, along the axis, of point k of a linear element
AbsoluteAt(element, axis, k) ==
  (IF axis = 1 THEN element.x ELSE element.y) + element.points[k][axis]

\* a resize step by an edge handle among handles on a linear element of
\* more than two points keeps the extreme point of the opposite side where
\* it was and moves the extreme point of the dragged side by the delta of
\* the pointer
EdgeResize(handles) ==
  /\ ResizeStep
  /\ gesture.resizeHandle \in handles
  /\ heap[elements[ResizedIndex]].type \in {"arrow", "line"}
  /\ Len(heap[elements[ResizedIndex]].points) > 2
  => LET before == heap[elements[ResizedIndex]]
         after == heap'[elements'[ResizedIndex]]
         axis == IF gesture.resizeHandle \in {"e", "w"} THEN 1 ELSE 2
         delta == IF axis = 1 THEN gesture'.lastX - gesture.lastX
                  ELSE gesture'.lastY - gesture.lastY
         len == Len(before.points)
         lowest == CHOOSE k \in 1..len :
                     sortedRank(before.points, axis, k) = 0
         highest == CHOOSE k \in 1..len :
                      sortedRank(before.points, axis, k) = len - 1
         dragged == IF gesture.resizeHandle \in {"n", "w"}
                    THEN lowest ELSE highest
         fixed == IF gesture.resizeHandle \in {"n", "w"}
                  THEN highest ELSE lowest
     IN /\ Len(after.points) = len
        /\ AbsoluteAt(after, axis, fixed) = AbsoluteAt(before, axis, fixed)
        /\ AbsoluteAt(after, axis, dragged)
             = AbsoluteAt(before, axis, dragged) + delta

\* C29: a linear element of more than two points resized by an edge handle
\* by delta d keeps the extreme point of the opposite side at its absolute
\* position and has the extreme point of the dragged side moved by exactly
\* d, and this for the n, s, e and w handles alike
C29_Original ==
  [][EdgeResize({"n", "s", "e", "w"})]_vars

\* the statement of C29 for the n, s and e handles
EdgeResizeButWest ==
  [][EdgeResize({"n", "s", "e"})]_vars

(***************************************************************************)
(* SpecResize: resize gestures on a box-like element, with and without the *)
(* shift key.  A rectangle, an ellipse or a diamond has been drawn and is  *)
(* the one selected element; the pointer goes down on one of its handles,  *)
(* moves by the deltas of ResizeDeltas, the shift key held or not, and     *)
(* goes up.                                                                *)
(***************************************************************************)
MaxResizeEvents == 4

ResizeDeltas == Deltas \cup {<<-11 * Step, Step>>}

BoxDrawn(tool) ==
  <<[type |-> "keydown", shape |-> tool]>>
    \o Drag(<<0, 0>>, <<10 * Step, 8 * Step>>)

InitResize ==
  /\ \E m \in {dispatchAll(collectGarbage(Mounted), BoxDrawn(tool)) :
                tool \in {"rectangle", "ellipse", "diamond"}} :
          /\ recording = m.h.recording
          /\ stateHistory = m.h.stateHistory
          /\ redoStack = m.h.redoStack
          /\ elements = m.elements
          /\ heap = m.heap
          /\ state = m.state
          /\ gesture = m.gesture
  /\ call = NoCall
  /\ ZIdle
  /\ FnIdle
  /\ scenario = <<>>
  /\ clock = 0

ResizeTick == /\ clock < MaxResizeEvents
              /\ clock' = clock + 1
              /\ UNCHANGED scenario

ResizeHandleDown ==
  /\ MouseDownOnHandle
  /\ ResizeTick

ResizeMove ==
  /\ \E d \in ResizeDeltas :
       MouseMove(<<gesture.lastX + d[1], gesture.lastY + d[2]>>)
  /\ ResizeTick

\* a pointer move with the shift key held, in the states where onMouseMove
\* takes its resize branch
ResizeMovePerfect ==
  /\ gesture.lastMouseUp
  /\ gesture.isResizingElements
  /\ state.resizingElement # 0
  /\ Cardinality({k \in 1..Len(elements) : heap[elements[k]].isSelected}) = 1
  /\ heap[firstSelected(Machine)].type \in BoxLike
  /\ \E d \in ResizeDeltas :
       Becomes(onMouseMoveResizePerfect(
                 Machine,
                 viewportCoordsToSceneCoords(
                   <<gesture.lastX + d[1], gesture.lastY + d[2]>>, state)))
  /\ call' = [NoCall EXCEPT !.op = "mouseMove"]
  /\ UNCHANGED <<zElements, zIndices, zResult, fnVars>>
  /\ ResizeTick

ResizeUp ==
  /\ MouseUp(<<gesture.lastX, gesture.lastY>>)
  /\ ResizeTick

NextResize == \/ ResizeHandleDown
              \/ ResizeMove
              \/ ResizeMovePerfect
              \/ ResizeUp

SpecResize == InitResize /\ [][NextResize]_vars

\* the corner of the element opposite to the handle
OppositeCorner(element, resizeHandle) ==
  <<IF resizeHandle \in {"nw", "sw"}
    THEN element.x + element.width ELSE element.x,
    IF resizeHandle \in {"nw", "ne"}
    THEN element.y + element.height ELSE element.y>>

\* C28: a resize step by a corner handle on a box-like element, with the
\* shift key held or not, leaves the corner opposite to the dragged handle
\* at its absolute position (after the step the handle is the one that
\* normalizeResizeHandle has put under the pointer)
C28_OppositeCornerFixed ==
  [][/\ ResizeStep
     /\ gesture.resizeHandle \in {"nw", "ne", "sw", "se"}
     /\ heap[elements[ResizedIndex]].type \in BoxLike
     => /\ gesture'.resizeHandle \in {"nw", "ne", "sw", "se"}
        /\ OppositeCorner(heap'[elements'[ResizedIndex]],
                          gesture'.resizeHandle)
             = OppositeCorner(heap[elements[ResizedIndex]],
                              gesture.resizeHandle)]_vars

\* a north-west handle has been dragged with the shift key held: the
\* element is a square that the step without the key cannot give, and its
\* south-east corner is where the rectangle drawn had it
C28_Witness ==
  /\ call.op = "mouseMove"
  /\ gesture.isResizingElements
  /\ gesture.resizeHandle = "nw"
  /\ clock = 2
  /\ \E k \in 1..Len(elements) :
       LET element == heap[elements[k]]
       IN /\ element.isSelected
          /\ element.type \in BoxLike
          /\ element.width = element.height
          /\ element.width = 21 * Step
          /\ OppositeCorner(element, "nw") = <<10 * Step, 8 * Step>>

(***************************************************************************)
(* SpecLoad: the loading of a scene in the version of the App that keeps   *)
(* restore beside the component, src/src/zindex.ts 786-811 and 1153-1191.  *)
(* The scene is the module-level array elements, empty when the component  *)
(* mounts and holding what has been drawn when a file is loaded.  A saved  *)
(* text is a JSON text, whole or cut short; an array of saved elements may *)
(* hold null where an element should be.  args holds the scene before the  *)
(* load and what is loaded, result the scene after it, what the load       *)
(* returned and whether an exception left it.                              *)
(***************************************************************************)
MaxSaved == 2      \* longest scene and longest array of saved elements

SavedSize == 20

\* a string, an array or null, as savedElements and savedState can be
TextOf(text) == [kind |-> "string", text |-> text]

ArrayOf(array) == [kind |-> "array", array |-> array]

NoValue == [kind |-> "null"]

SavedElements ==
  {[type |-> "rectangle", x |-> 0, y |-> 0, width |-> SavedSize,
    height |-> SavedSize, opacity |-> 50],
   [type |-> "rectangle", x |-> SavedSize, y |-> 0, width |-> SavedSize,
    height |-> SavedSize, fillStyle |-> "solid", strokeWidth |-> 2,
    roughness |-> 2, opacity |-> 100]}

\* generateDraw(element): the draw function is made from the element's width
\* and height
generateDraw(element) ==
  With(element, "draw", <<element.width, element.height>>)

\* the body of elements.forEach in restore
restoreDefaults(element) ==
  generateDraw(
    With(With(With(With(element,
      "fillStyle", OrString(element, "fillStyle", "hachure")),
      "strokeWidth", OrNumber(element, "strokeWidth", 1)),
      "roughness", OrNumber(element, "roughness", 1)),
      "opacity", Coalesce(element, "opacity", 100)))

\* the scenes the App can hold when a file is loaded
LoadScenes ==
  UNION {[1..n -> {restoreDefaults(e) : e \in SavedElements}] :
           n \in 0..MaxSaved}

\* the arrays of saved elements, some with null for an element
SavedArrays ==
  UNION {[1..n -> SavedElements \cup {Null}] : n \in 0..MaxSaved}

SavedStates == {[viewBackgroundColor |-> "#ffffff"]}

\* restore(savedElements, savedState) on the module-level array elems:
\* JSON.parse of a text cut short throws before splice is called, a null
\* among the elements throws in forEach after it; the catch clause empties
\* the array and returns null
restoreScene(elems, savedElements, savedState) ==
  LET throwsAtElements ==
        /\ savedElements.kind = "string"
        /\ JSONparseThrows(savedElements.text)
      array == IF savedElements.kind = "string"
               THEN JSONparse(savedElements.text)
               ELSE savedElements.array
      truthy == /\ savedElements.kind # "null"
                /\ savedElements.kind = "array" \/ ~ throwsAtElements
      throwsAtForEach == truthy /\ \E k \in 1..Len(array) : array[k] = Null
      throwsAtState == /\ savedState.kind = "string"
                       /\ JSONparseThrows(savedState.text)
      spliced == IF truthy
                 THEN [k \in 1..Len(array) |-> restoreDefaults(array[k])]
                 ELSE elems
  IN IF throwsAtElements \/ throwsAtForEach \/ throwsAtState
     THEN [elements |-> <<>>, ret |-> Null, thrown |-> FALSE]
     ELSE [elements |-> spliced,
           ret |-> IF savedState.kind = "string"
                   THEN Some(JSONparse(savedState.text)) ELSE Null,
           thrown |-> FALSE]

\* restoreFromLocalStorage(), the two items of the local storage given
restoreFromLocalStorage(elems, savedElements, savedState) ==
  restoreScene(elems, savedElements, savedState)

\* reader.onloadend of loadFromJSON: JSON.parse(reader.result) is outside
\* any try, and data.elements of a file without elements is undefined
loadFromJSON(elems, file) ==
  IF JSONparseThrows(file)
  THEN [elements |-> elems, ret |-> Null, thrown |-> TRUE]
  ELSE restoreScene(elems,
                    IF "elements" \in DOMAIN JSONparse(file)
                    THEN ArrayOf(JSONparse(file).elements) ELSE NoValue,
                    NoValue)

LoadFiles ==
  {JSONstringify([elements |-> array]) : array \in SavedArrays}
    \cup {Truncated([elements |-> array]) : array \in SavedArrays}
    \cup {JSONstringify([version |-> 1])}

LocalStorageElements ==
  {NoValue}
    \cup {TextOf(JSONstringify(array)) :
            array \in {a \in SavedArrays : Null \notin Range(a)}}
    \cup {TextOf(Truncated(array)) :
            array \in {a \in SavedArrays : Null \notin Range(a)}}

LocalStorageStates ==
  {NoValue} \cup {TextOf(JSONstringify(st)) : st \in SavedStates}
            \cup {TextOf(Truncated(st)) : st \in SavedStates}

InitLoad ==
  /\ HistoryIdle
  /\ call = NoCall
  /\ ZIdle
  /\ AppIdle
  /\ \/ args \in [op : {"componentDidMount"}, elements : {<<>>},
                   savedElements : LocalStorageElements,
                   savedState : LocalStorageStates]
     \/ args \in [op : {"loadFromJSON"}, elements : LoadScenes,
                   file : LoadFiles]
  /\ result = <<>>
  /\ globalSceneState = GlobalScene
  /\ pointer = PointerIdle

LoadUnchanged ==
  UNCHANGED <<recording, stateHistory, redoStack, zElements, zIndices,
              zResult, appVars, args, globalSceneState, pointer>>

\* componentDidMount: const savedState = restoreFromLocalStorage()
CallRestoreFromLocalStorage ==
  /\ call.op = "none"
  /\ args.op = "componentDidMount"
  /\ result' = restoreFromLocalStorage(args.elements, args.savedElements,
                                       args.savedState)
  /\ call' = [NoCall EXCEPT !.op = "restoreFromLocalStorage"]
  /\ LoadUnchanged

CallLoadFromJSON ==
  /\ call.op = "none"
  /\ args.op = "loadFromJSON"
  /\ result' = loadFromJSON(args.elements, args.file)
  /\ call' = [NoCall EXCEPT !.op = "loadFromJSON"]
  /\ LoadUnchanged

NextLoad == \/ CallRestoreFromLocalStorage
            \/ CallLoadFromJSON

SpecLoad == InitLoad /\ [][NextLoad]_vars

\* what was loaded holds a JSON text that is cut short
MalformedJSON ==
  IF args.op = "loadFromJSON" THEN JSONparseThrows(args.file)
  ELSE \/ /\ args.savedElements.kind = "string"
          /\ JSONparseThrows(args.savedElements.text)
       \/ /\ args.savedState.kind = "string"
          /\ JSONparseThrows(args.savedState.text)

\* C26: when the saved elements or the saved state of a load is malformed
\* JSON, the failure is caught and the element list of the scene is after
\* the load what it was before
C26_Original ==
  call.op # "none" /\ MalformedJSON =>
    /\ ~ result.thrown
    /\ result.elements = args.elements

\* the saved elements of a load are not what restore can read: a JSON text
\* cut short, or an array with null for an element
MalformedElements ==
  IF args.op = "loadFromJSON"
  THEN /\ ~ JSONparseThrows(args.file)
       /\ "elements" \in DOMAIN JSONparse(args.file)
       /\ Null \in Range(JSONparse(args.file).elements)
  ELSE MalformedJSON

\* the element list of the scene is after the load what it was before also
\* when the failure restore catches is a null among the saved elements
\* (it is not: the catch clause empties the list)
CaughtKeepsScene ==
  call.op # "none" /\ MalformedElements =>
    result.elements = args.elements

(***************************************************************************)
(* SpecMulti: the arrow and line tools of the version of the App in        *)
(* src/src/zindex.ts 3146-4075, where a click puts the tool in multi-point *)
(* mode and the last point of the element follows the pointer.  The model  *)
(* keeps what the pointer handlers of these two tools read and write: the  *)
(* scene, whose objects are heap[1..] in scene order, the fields           *)
(* elementType, draggingElement, multiElement, resizingElement,            *)
(* selectionElement and isResizing of this.state, the closure of the       *)
(* pointer-down and the recording flag of the history.  A behaviour        *)
(* dispatches the events of scenario one by one; args holds the tool and   *)
(* the positions clicked.                                                  *)
(***************************************************************************)
MaxClicks == 3

ClickPoints == {<<30, 30>>, <<50, 60>>, <<100, 140>>}

MultiIdle == [lastMouseUp |-> FALSE, originX |-> 0, originY |-> 0,
              draggingOccurred |-> FALSE]

\* the App of SpecMulti as a record
MultiApp == [recording |-> recording, elements |-> heap, state |-> state,
             gesture |-> gesture]

MultiBecomes(a) ==
  /\ recording' = a.recording
  /\ heap' = a.elements
  /\ elements' = [k \in 1..Len(a.elements) |-> k]
  /\ state' = a.state
  /\ gesture' = a.gesture
  /\ UNCHANGED <<stateHistory, redoStack, call, zElements, zIndices,
                 zResult, args, result, scenario,
                 globalSceneState, pointer>>
  /\ clock' = clock + 1

\* element.points.push([x - element.x, y - element.y]); element.shape = null
pushPoint(element, c) ==
  [element EXCEPT !.points = Append(@, <<c.x - element.x, c.y - element.y>>),
                  !.shape = NoShape]

\* the last point of the element is put where the pointer is
moveLastPoint(element, c) ==
  [element EXCEPT !.points[Len(element.points)] =
                     <<c.x - element.x, c.y - element.y>>,
                  !.shape = NoShape]

\* onMouseUp of the pointer-down closure, with the arrow or the line tool
onMouseUpLinear(a, p) ==
  LET draggingElement == a.state.draggingElement
      multiElement == a.state.multiElement
      c == viewportCoordsToSceneCoords(p, a.state)
      up == [a EXCEPT !.state.isResizing = FALSE,
                      !.state.resizingElement = 0,
                      !.state.selectionElement = 0,
                      !.gesture = MultiIdle]
      resumed == IF Len(up.elements[draggingElement].points) > 1
                 THEN [up EXCEPT !.recording = TRUE] ELSE up
  IN IF ~ a.gesture.draggingOccurred /\ draggingElement # 0
          /\ multiElement = 0
     THEN [resumed EXCEPT
             !.elements[draggingElement] = pushPoint(@, c),
             !.state.multiElement = draggingElement]
     ELSE IF a.gesture.draggingOccurred /\ multiElement = 0
     THEN [resumed EXCEPT
             !.elements[draggingElement].isSelected = TRUE,
             !.state.draggingElement = 0,
             !.state.elementType = "selection"]
     ELSE resumed

\* onMouseDown on the canvas, with the arrow or the line tool
onMouseDownLinear(a, p) ==
  LET cleaned == IF a.gesture.lastMouseUp THEN onMouseUpLinear(a, p) ELSE a
      c == viewportCoordsToSceneCoords(p, cleaned.state)
      multiElement == cleaned.state.multiElement
      element == newElement(cleaned.state.elementType, c.x, c.y,
                            "transparent", Len(cleaned.elements) + 1)
      placed ==
        IF multiElement # 0
        THEN [cleaned EXCEPT
                !.elements[multiElement] =
                   pushPoint([@ EXCEPT !.isSelected = TRUE], c)]
        ELSE [cleaned EXCEPT
                !.elements = Append(@, [element EXCEPT
                                          !.points = <<<<0, 0>>>>]),
                !.state.draggingElement = Len(cleaned.elements) + 1]
  IN [placed EXCEPT
        !.gesture = [lastMouseUp |-> TRUE, originX |-> c.x, originY |-> c.y,
                     draggingOccurred |-> FALSE]]

\* onMouseMove of the pointer-down closure, with the arrow or the line tool
onMouseMoveLinear(a, p) ==
  LET c == viewportCoordsToSceneCoords(p, a.state)
      g == a.gesture
      draggingElement == a.state.draggingElement
  IN IF /\ ~ g.draggingOccurred
        /\ distance2dBelow(c.x, c.y, g.originX, g.originY,
                           DRAGGING_THRESHOLD)
     THEN a
     ELSE IF draggingElement = 0 THEN a
     ELSE [a EXCEPT
             !.gesture.draggingOccurred = TRUE,
             !.elements[draggingElement] =
                IF Len(@.points) = 1 THEN pushPoint(@, c)
                ELSE IF Len(@.points) > 1 THEN moveLastPoint(@, c)
                ELSE [@ EXCEPT !.shape = NoShape]]

\* onMouseMove on the canvas, but leaving the element in multi-point mode
\* as it is
onMouseMoveCanvasIdle(a, p) == a

\* onMouseMove on the canvas, with the arrow or the line tool: the last
\* point of the element in multi-point mode follows the pointer
onMouseMoveCanvas(a, p) ==
  LET c == viewportCoordsToSceneCoords(p, a.state)
      multiElement == a.state.multiElement
  IN IF multiElement # 0
     THEN [a EXCEPT
             !.elements[multiElement] = moveLastPoint(@, c)]
     ELSE a

HoverEvent(p) == <<[type |-> "hover", p |-> p]>>

RECURSIVE ClicksAt(_, _)

\* the pointer is moved to each position and clicked there; jitter tells
\* whether the pointer moves a little while the button is down
ClicksAt(positions, jitter) ==
  IF jitter
  THEN HoverEvent(positions[1]) \o DownEvent(positions[1])
         \o MoveEvent(Plus(positions[1], <<6, 0>>))
         \o UpEvent(positions[1]) \o ClicksAt(Tail(positions), FALSE)
  ELSE IF positions = <<>> THEN <<>>
  ELSE HoverEvent(positions[1]) \o Click(positions[1])
         \o ClicksAt(Tail(positions), FALSE)

MultiStarts ==
  {[kind |-> "clicks", positions |-> positions,
    events |-> ClicksAt(positions, jitter)] :
      positions \in UNION {[1..n -> ClickPoints] : n \in 1..MaxClicks},
      jitter \in BOOLEAN}
  \cup {[kind |-> "drag", positions |-> <<p, q>>, events |-> Drag(p, q)] :
          p \in ClickPoints, q \in ClickPoints}

InitMulti ==
  /\ HistoryIdle
  /\ call = NoCall
  /\ ZIdle
  /\ elements = <<>>
  /\ heap = <<>>
  /\ \E tool \in {"arrow", "line"}, start \in MultiStarts :
       /\ state = [elementType |-> tool, draggingElement |-> 0,
                   multiElement |-> 0, resizingElement |-> 0,
                   selectionElement |-> 0, isResizing |-> FALSE,
                   scrollX |-> 0, scrollY |-> 0]
       /\ args = [kind |-> start.kind, tool |-> tool,
                  positions |-> start.positions]
       /\ scenario = start.events
  /\ gesture = MultiIdle
  /\ result = <<>>
  /\ globalSceneState = GlobalScene
  /\ pointer = PointerIdle
  /\ clock = 0

MultiEvent(type) ==
  /\ clock < Len(scenario)
  /\ scenario[clock + 1].type = type
  /\ state.elementType \in {"arrow", "line"}

MultiDown ==
  /\ MultiEvent("mousedown")
  /\ MultiBecomes(onMouseDownLinear(MultiApp, GestureEvent.p))

MultiMove ==
  /\ MultiEvent("mousemove")
  /\ gesture.lastMouseUp
  /\ MultiBecomes(onMouseMoveLinear(MultiApp, GestureEvent.p))

MultiUp ==
  /\ MultiEvent("mouseup")
  /\ gesture.lastMouseUp
  /\ MultiBecomes(onMouseUpLinear(MultiApp, GestureEvent.p))

MultiHover ==
  /\ MultiEvent("hover")
  /\ MultiBecomes(onMouseMoveCanvas(MultiApp, GestureEvent.p))

NextMulti == \/ MultiDown
             \/ MultiMove
             \/ MultiUp
             \/ MultiHover

SpecMulti == InitMulti /\ [][NextMulti]_vars

\* the clicks whose pointer-down and whose pointer-up have been dispatched
DownsDone ==
  Cardinality({k \in 1..clock : scenario[k].type = "mousedown"})

UpsDone ==
  Cardinality({k \in 1..clock : scenario[k].type = "mouseup"})

\* position j of the clicks, from the position of the first
ClickOffset(j) ==
  <<args.positions[j][1] - args.positions[1][1],
    args.positions[j][2] - args.positions[1][2]>>

\* C25: with the arrow or the line tool a click without drag puts the tool
\* in multi-point mode; when the pointer is moved to each position before
\* it is clicked, the scene holds one linear element from the first
\* pointer-down on, at the position of the first pointer-down, whose
\* first point is <<0, 0>> and whose point j is the position of click j
\* minus that of the first, for every click made; the one point after
\* these is the point that follows the pointer until the element is
\* finalized
C25_MultiPoint ==
  args.kind = "clicks" /\ DownsDone >= 1 =>
    /\ Len(elements) = 1
    /\ LET element == heap[elements[1]]
           fixed == IF UpsDone >= 1 THEN Front(element.points)
                    ELSE element.points
       IN /\ element.type = args.tool
          /\ element.x = args.positions[1][1]
          /\ element.y = args.positions[1][2]
          /\ element.points[1] = <<0, 0>>
          /\ UpsDone >= 1 => state.multiElement = elements[1]
          /\ fixed = [j \in 1..DownsDone |-> ClickOffset(j)]

\* the clicks at (30,30), (50,60) and (100,140) have been made: the points
\* before the one that follows the pointer are <<0,0>>, <<20,30>>, <<70,110>>
C25_Witness ==
  /\ args.kind = "clicks"
  /\ args.positions = <<<<30, 30>>, <<50, 60>>, <<100, 140>>>>
  /\ clock = Len(scenario)
  /\ Len(elements) = 1
  /\ Front(heap[elements[1]].points)
       = <<<<0, 0>>, <<20, 30>>, <<70, 110>>>>

(***************************************************************************)
(* The history object again, SpecHistory: undoOnce and redoOnce as         *)
(* inverses of each other, and the entries of the undo stack.              *)
(***************************************************************************)
Stacks == <<stateHistory, redoStack>>

\* C38: undoOnce on a non-empty undo stack followed at once by redoOnce
\* leaves both stacks as they were before the undoOnce; redoOnce on a
\* non-empty redo stack followed at once by undoOnce leaves both stacks as
\* they were before the redoOnce; no undoOnce and no redoOnce changes the
\* number of entries the two stacks hold together
C38_UndoRedoInverse ==
  [][/\ /\ call.op = "undoOnce"
           /\ Len(call.pre.stateHistory) > 0
           /\ call'.op = "redoOnce"
           => Stacks' = <<call.pre.stateHistory, call.pre.redoStack>>
     /\ /\ call.op = "redoOnce"
           /\ Len(call.pre.redoStack) > 0
           /\ call'.op = "undoOnce"
           => Stacks' = <<call.pre.stateHistory, call.pre.redoStack>>
     /\ call'.op \in {"undoOnce", "redoOnce"}
           => Len(stateHistory') + Len(redoStack')
                = Len(stateHistory) + Len(redoStack)]_vars

\* a redoOnce has moved an entry back onto an undo stack of two entries
\* while the redo stack keeps another one
C38_Witness ==
  /\ call.op = "redoOnce"
  /\ Len(call.pre.redoStack) = 2
  /\ Len(stateHistory) = 2
  /\ Len(redoStack) = 1

\* C40: under any sequence of pushEntry, undoOnce and redoOnce calls no two
\* entries next to each other in the undo stack are equal
C40_NoAdjacentDuplicates ==
  \A k \in 1..(Len(stateHistory) - 1) : stateHistory[k] # stateHistory[k + 1]

\* a redoOnce has put back an entry that is also two places below it
C40_Witness ==
  /\ call.op = "redoOnce"
  /\ Len(stateHistory) = 3
  /\ stateHistory[1] = stateHistory[3]


\* the number of slots of s that hold x
Occurrences(s, x) == Cardinality({k \in 1..Len(s) : s[k] = x})

RestackOps == {"moveOneLeft", "moveOneRight", "moveAllLeft", "moveAllRight"}

\* C33: each of the four restacking operations returns a permutation of its
\* input for any set of distinct in-range indices, the first or the last
\* index included: the length is unchanged and every input element occurs
\* exactly once in the output.
C33_Permutation ==
  call.op \in RestackOps =>
    /\ Len(zResult) = Len(zElements)
    /\ \A k \in 1..Len(zElements) : Occurrences(zResult, zElements[k]) = 1

C33_Witness == /\ call.op = "moveOneLeft"
               /\ Len(zElements) = MaxLen
               /\ Range(zIndices) = {0, 2, MaxLen - 1}
               /\ zResult # zElements
               /\ \A k \in 1..Len(zElements) :
                    Occurrences(zResult, zElements[k]) = 1


\* C39: moveOneLeft applied repeatedly, each time with the current indices of
\* the same selected elements, has reached a fixed point after at most
\* length - 1 applications, and the fixed point is the result of moveAllLeft
\* on the original array; symmetrically for moveOneRight and moveAllRight.
C39_MoveOneReachesMoveAll ==
  /\ (call.op \in {"moveOneLeft", "moveOneLeft*"}
       /\ applications >= Len(zElements) - 1)
      => /\ zResult = moveAllLeft(zElements, zIndices)
         /\ moveOneLeft(zResult, currentIndices) = zResult
  /\ (call.op \in {"moveOneRight", "moveOneRight*"}
       /\ applications >= Len(zElements) - 1)
      => /\ zResult = moveAllRight(zElements, zIndices)
         /\ moveOneRight(zResult, currentIndices) = zResult

C39_Witness == /\ call.op = "moveOneLeft*"
               /\ Len(zElements) = MaxLen
               /\ zIndices = <<MaxLen - 1, 2>>
               /\ applications = MaxLen - 1
               /\ Ids(zResult) = <<"C", "E", "A", "B", "D">>


(***************************************************************************)
(* SpecScene: the scene store of scene/globalScene.ts.  The module         *)
(* constructs the one GlobalScene object with no argument; afterwards the  *)
(* array is replaced, callbacks are added and removed, and the two getters *)
(* are read.  An element is its id and its isDeleted flag.                 *)
(***************************************************************************)
MaxStore == 3      \* longest array handed to replaceAllElements

StoreElements == [id : {"a", "b", "c"}, isDeleted : BOOLEAN]

\* the arrays handed to replaceAllElements: elements of distinct ids
StoreScenes ==
  {sc \in UNION {[1..n -> StoreElements] : n \in 0..MaxStore} :
     \A a, b \in 1..Len(sc) : a # b => sc[a].id # sc[b].id}

Callbacks == {"render", "sync"}

\* throw new Error()
Thrown == [error |-> TRUE]

\* elements.filter((element) => !element.isDeleted)
getNonDeletedElements(elems) == SelectSeq(elems, LAMBDA e : ~e.isDeleted)

getElementsIncludingDeleted(scene) == scene._elements

getElements(scene) == scene.nonDeletedElements

\* replaceAllElements that keeps the non-deleted elements it had
replaceAllElementsKeepsView(scene, nextElements) ==
  [scene EXCEPT !._elements = nextElements]

replaceAllElements(scene, nextElements) ==
  [scene EXCEPT !._elements = nextElements,
                !.nonDeletedElements = getNonDeletedElements(nextElements)]

\* the callbacks informMutation calls
informMutation(scene) == scene.callbacks

InitScene == /\ HistoryIdle
             /\ ZIdle
             /\ AppIdle
             /\ FnIdle
             /\ call = NoCall

SceneUnchanged ==
  UNCHANGED <<recording, stateHistory, redoStack, zElements, zIndices,
              zResult, appVars, pointer>>

CallReplaceAllElements ==
  \E nextElements \in StoreScenes :
    /\ globalSceneState' = replaceAllElements(globalSceneState, nextElements)
    /\ call' = [NoCall EXCEPT !.op = "replaceAllElements",
                              !.arg = informMutation(globalSceneState')]
    /\ args' = nextElements
    /\ result' = <<>>
    /\ SceneUnchanged

CallInformMutation ==
  /\ call' = [NoCall EXCEPT !.op = "informMutation",
                            !.arg = informMutation(globalSceneState)]
  /\ args' = <<>>
  /\ result' = <<>>
  /\ UNCHANGED globalSceneState
  /\ SceneUnchanged

CallAddCallback ==
  \E cb \in Callbacks :
    /\ IF cb \in globalSceneState.callbacks
       THEN /\ call' = [NoCall EXCEPT !.op = "addCallback", !.ret = Thrown]
            /\ UNCHANGED globalSceneState
       ELSE /\ call' = [NoCall EXCEPT !.op = "addCallback"]
            /\ globalSceneState' =
                 [globalSceneState EXCEPT !.callbacks = @ \cup {cb},
                                          !.removers = @ \cup {cb}]
    /\ args' = cb
    /\ result' = <<>>
    /\ SceneUnchanged

\* the function addCallback returned
CallRemover ==
  \E cb \in globalSceneState.removers :
    /\ IF cb \notin globalSceneState.callbacks
       THEN /\ call' = [NoCall EXCEPT !.op = "remover", !.ret = Thrown]
            /\ UNCHANGED globalSceneState
       ELSE /\ call' = [NoCall EXCEPT !.op = "remover"]
            /\ globalSceneState' =
                 [globalSceneState EXCEPT !.callbacks = @ \ {cb}]
    /\ args' = cb
    /\ result' = <<>>
    /\ SceneUnchanged

CallGetElements ==
  /\ call' = [NoCall EXCEPT !.op = "getElements"]
  /\ args' = <<>>
  /\ result' = getElements(globalSceneState)
  /\ UNCHANGED globalSceneState
  /\ SceneUnchanged

CallGetElementsIncludingDeleted ==
  /\ call' = [NoCall EXCEPT !.op = "getElementsIncludingDeleted"]
  /\ args' = <<>>
  /\ result' = getElementsIncludingDeleted(globalSceneState)
  /\ UNCHANGED globalSceneState
  /\ SceneUnchanged

NextScene == \/ CallReplaceAllElements
             \/ CallInformMutation
             \/ CallAddCallback
             \/ CallRemover
             \/ CallGetElements
             \/ CallGetElementsIncludingDeleted

SpecScene == InitScene /\ [][NextScene]_vars

\* C34: in every state of the scene store, from construction onward and
\* after every replaceAllElements, getElements() returns exactly the elements
\* of getElementsIncludingDeleted() that are not soft-deleted, in the same
\* order.
C34_NonDeletedView ==
  /\ getElements(globalSceneState)
       = SelectSeq(getElementsIncludingDeleted(globalSceneState),
                   LAMBDA e : ~e.isDeleted)
  /\ call.op = "getElements"
       => result = SelectSeq(globalSceneState._elements,
                             LAMBDA e : ~e.isDeleted)

C34_Witness ==
  /\ call.op = "getElements"
  /\ Len(globalSceneState._elements) = MaxStore
  /\ globalSceneState._elements[2].isDeleted
  /\ result = <<globalSceneState._elements[1], globalSceneState._elements[3]>>
  /\ globalSceneState.callbacks # {}


\* the element objects of the scene, in order
ElementList == [k \in 1..Len(elements) |-> heap[elements[k]]]

\* C35: while a pointer gesture is in progress (between the pointer-down and
\* the pointer-up of a creation, move or resize gesture) an undo or redo
\* request is ignored: both history stacks and the scene's element list stay
\* unchanged.
C35_Original ==
  [][(/\ gesture.lastMouseUp
      /\ \/ state.elementType # "selection"
         \/ gesture.hitElement # 0
         \/ gesture.isResizingElements
      /\ (KeyDownUndo \/ KeyDownRedo))
       => /\ stateHistory' = stateHistory
          /\ redoStack' = redoStack
          /\ ElementList' = ElementList]_vars


\* C36: whenever no gesture is in progress (the App has committed its first
\* state when it was mounted), the undo stack is non-empty and its top entry
\* equals the snapshot of the current scene and allow-listed app state.
C36_Original ==
  ~ gesture.lastMouseUp
    => /\ Len(stateHistory) > 0
       /\ Last(stateHistory) = Snapshot(Machine)


\* C37: the redo stack is emptied only by committing a state whose snapshot
\* differs from the committed one: an update outside a gesture that is no
\* undo or redo and does not change the snapshot (a tool switch, a selection
\* change) leaves the redo stack as it was, so redo stays available after an
\* undo.
C37_Original ==
  [][(/\ ~ gesture.lastMouseUp
      /\ ~ gesture'.lastMouseUp
      /\ ~ (KeyDownUndo \/ KeyDownRedo)
      /\ Snapshot(Machine)' = Snapshot(Machine))
       => redoStack' = redoStack]_vars


(***************************************************************************)
(* SpecPaste: the App after two rectangles have been drawn, and after the  *)
(* second has been undone, under any interleaving of tool keys, pointer    *)
(* events, arrow keys, undo, redo and paste.  The clipboard holds the JSON *)
(* array of one rectangle, an empty array, or a text cut short; the cursor *)
(* is where the last mousemove on the document left it.                    *)
(***************************************************************************)
MaxPasteEvents == 4  \* events dispatched in a behaviour of SpecPaste

CANVAS_WINDOW_OFFSET_LEFT == 0
CANVAS_WINDOW_OFFSET_TOP == 0

\* duplicateElement: a copy under a fresh id
duplicateElement(element, id) == [element EXCEPT !.id = id]

\* Math.min and Math.max over the elements, from Infinity and -Infinity
getCommonBounds(elems) ==
  LET coords == [k \in 1..Len(elems) |-> getElementAbsoluteCoords(elems[k])]
      least(i) == CHOOSE v \in {coords[k][i] : k \in 1..Len(elems)} :
                    \A k \in 1..Len(elems) : v <= coords[k][i]
      most(i) == CHOOSE v \in {coords[k][i] : k \in 1..Len(elems)} :
                   \A k \in 1..Len(elems) : v >= coords[k][i]
  IN <<least(1), least(2), most(3), most(4)>>

\* ...parsedElements.map(parsedElement => ...), from position k on
RECURSIVE appendDuplicates(_, _, _, _, _)
appendDuplicates(m, parsedElements, k, dx, dy) ==
  IF k > Len(parsedElements) THEN m
  ELSE LET duplicate == duplicateElement(parsedElements[k], nanoid(m))
           placed == [duplicate EXCEPT !.x = @ + dx, !.y = @ + dy]
       IN appendDuplicates(
            [m EXCEPT !.heap = Append(@, placed),
                      !.elements = Append(@, Len(m.heap) + 1)],
            parsedElements, k + 1, dx, dy)

\* paste: the text of the clipboard; cursor: cursorX and cursorY
addElementsFromPaste(m, paste, cursor) ==
  IF JSONparseThrows(paste) THEN m
  ELSE LET parsedElements == JSONparse(paste)
       IN IF Len(parsedElements) = 0 THEN m
          ELSE IF "type" \notin DOMAIN parsedElements[1] THEN m
          ELSE LET bounds == getCommonBounds(parsedElements)
                   elementsCenterX == distance(bounds[1], bounds[3]) \div 2
                   elementsCenterY == distance(bounds[2], bounds[4]) \div 2
                   dx == cursor[1] - m.state.scrollX
                           - CANVAS_WINDOW_OFFSET_LEFT - elementsCenterX
                   dy == cursor[2] - m.state.scrollY
                           - CANVAS_WINDOW_OFFSET_TOP - elementsCenterY
               IN setState(appendDuplicates(clearSelection(m), parsedElements,
                                            1, dx - bounds[1], dy - bounds[2]),
                           NoPatch)

\* what was copied: a rectangle, without its shape and unselected
CopiedRectangle ==
  Without(newElement("rectangle", 0, 0, "transparent", 0), "shape")

Clipboards ==
  {JSONstringify(<<[CopiedRectangle EXCEPT !.width = 4 * Step,
                                           !.height = 2 * Step]>>),
   JSONstringify(<<>>),
   Truncated(<<CopiedRectangle>>)}

SecondRectangleDrawn ==
  <<[type |-> "keydown", shape |-> "rectangle"]>>
    \o Drag(<<20 * Step, 20 * Step>>, <<26 * Step, 24 * Step>>)

TwoRectanglesDrawn ==
  dispatchAll(collectGarbage(Mounted), RectangleDrawn \o SecondRectangleDrawn)

InitPaste ==
  /\ \E m \in {TwoRectanglesDrawn,
              collectGarbage(onKeyDownUndo(TwoRectanglesDrawn))} :
          /\ recording = m.h.recording
          /\ stateHistory = m.h.stateHistory
          /\ redoStack = m.h.redoStack
          /\ elements = m.elements
          /\ heap = m.heap
          /\ state = m.state
          /\ gesture = m.gesture
  /\ call = NoCall
  /\ ZIdle
  /\ FnIdle
  /\ scenario = <<>>
  /\ clock = 0

PasteTick == /\ clock < MaxPasteEvents
             /\ clock' = clock + 1
             /\ UNCHANGED scenario

PastePositions == {<<40 * Step, 0>>, <<0, 40 * Step>>}

PasteToolKey ==
  /\ KeyDownShape("rectangle")
  /\ PasteTick

PastePointerDown ==
  /\ \E p \in PastePositions : MouseDown(p)
  /\ PasteTick

PastePointerMove ==
  /\ MouseMove(<<gesture.lastX + 2 * Step, gesture.lastY + Step>>)
  /\ PasteTick

PastePointerUp ==
  /\ MouseUp(<<gesture.lastX, gesture.lastY>>)
  /\ PasteTick

PasteArrowKey ==
  /\ KeyDownArrow("ArrowRight", FALSE)
  /\ PasteTick

PasteUndo ==
  /\ KeyDownUndo
  /\ PasteTick

PasteRedo ==
  /\ KeyDownRedo
  /\ PasteTick

Paste ==
  /\ \E paste \in Clipboards, cursor \in PastePositions :
       Becomes(addElementsFromPaste(Machine, paste, cursor))
  /\ call' = [NoCall EXCEPT !.op = "paste"]
  /\ UNCHANGED <<zElements, zIndices, zResult, fnVars>>
  /\ PasteTick

NextPaste == \/ PasteToolKey
             \/ PastePointerDown
             \/ PastePointerMove
             \/ PastePointerUp
             \/ PasteArrowKey
             \/ PasteUndo
             \/ PasteRedo
             \/ Paste

SpecPaste == InitPaste /\ [][NextPaste]_vars

\* the ids of the elements of the scene, in order
ElementIds == [k \in 1..Len(elements) |-> heap[elements[k]].id]

\* C31: when a creation gesture ends with an invisibly small element, the
\* element removed from the scene is exactly the one added at that gesture's
\* pointer-down and every other element is kept, whatever paste, arrow key,
\* undo or redo came between the pointer-down and the pointer-up.
C31_Original ==
  [][(/\ gesture.lastMouseUp
      /\ ~ gesture'.lastMouseUp
      /\ state.elementType # "selection"
      /\ state.draggingElement # 0
      /\ isInvisiblySmallElement(heap[state.draggingElement]))
       => ElementIds' = SelectSeq(ElementIds,
                                  LAMBDA id : id # heap[state.draggingElement].id)]_vars


(***************************************************************************)
(* SpecPointer: the listeners of the pointer gestures.  pointer holds the  *)
(* module's lastMouseUp, isPanning, isHoldingMouseButton and               *)
(* isHoldingSpace and the listeners that the canvas onMouseDown handler    *)
(* has put on the window; the handlers are taken down to the statements    *)
(* that read or write them (what they do to the scene is in Spec and       *)
(* SpecDraw).  The closures of a pointer-down are told apart by the number *)
(* of the gesture.  A pointer-up that never arrives is a behaviour in      *)
(* which no mouseup is dispatched before the next pointer-down.            *)
(***************************************************************************)
MaxGestures == 4   \* pointer-downs of SpecPointer that begin a gesture

Handler(fn, n) == [fn |-> fn, gesture |-> n]

Listener(type, fn, n) == [type |-> type, handler |-> Handler(fn, n)]

\* the onMouseUp listener of gesture n, down to its first statements
onMouseUpListener(s, n) ==
  [s EXCEPT !.lastMouseUp = NoHandler,
            !.isHoldingMouseButton = FALSE,
            !.listeners = @ \ {Listener("mousemove", "onMouseMove", n),
                               Listener("mouseup", "onMouseUp", n)}]

\* the teardown of the panning begun by pointer-down n
teardown(s, n) ==
  [s EXCEPT !.lastMouseUp = NoHandler,
            !.isPanning = FALSE,
            !.isHoldingMouseButton = FALSE,
            !.listeners = @ \ {Listener("mousemove", "onMouseMovePan", n),
                               Listener("mouseup", "teardown", n),
                               Listener("blur", "teardown", n)}]

\* a call of the function h
callHandler(s, h) ==
  IF h.fn = "onMouseUp" THEN onMouseUpListener(s, h.gesture)
  ELSE IF h.fn = "teardown" THEN teardown(s, h.gesture)
  ELSE s

\* what follows the clean-up in the canvas onMouseDown handler; isText:
\* the tool is the text tool
beginGesture(s, button, isText) ==
  LET n == s.gestures + 1
  IN IF s.isPanning THEN s
     ELSE IF /\ ~ s.isHoldingMouseButton
             /\ button = "WHEEL" \/ (button = "MAIN" /\ s.isHoldingSpace)
     THEN [s EXCEPT !.isHoldingMouseButton = TRUE,
                    !.isPanning = TRUE,
                    !.lastMouseUp = Handler("teardown", n),
                    !.listeners = @ \cup {Listener("blur", "teardown", n),
                                          Listener("mousemove",
                                                   "onMouseMovePan", n),
                                          Listener("mouseup", "teardown", n)},
                    !.gestures = n]
     ELSE IF button # "MAIN" THEN s
     ELSE IF isText THEN s
     ELSE [s EXCEPT !.lastMouseUp = Handler("onMouseUp", n),
                    !.listeners = @ \cup {Listener("mousemove",
                                                   "onMouseMove", n),
                                          Listener("mouseup", "onMouseUp", n)},
                    !.gestures = n]

\* onMouseDown that does not call lastMouseUp
onMouseDownNoCleanup(s, button, isText) == beginGesture(s, button, isText)

\* the canvas onMouseDown handler
onMouseDownListeners(s, button, isText) ==
  beginGesture(IF s.lastMouseUp # NoHandler THEN callHandler(s, s.lastMouseUp) ELSE s,
               button, isText)

\* an event on the window: its listeners of that type are called in the
\* order they were added, from gesture n on; a listener removed meanwhile
\* is not called
RECURSIVE dispatchEvent(_, _, _)
dispatchEvent(s, type, n) ==
  IF n > s.gestures THEN s
  ELSE LET called == {l \in s.listeners :
                        l.type = type /\ l.handler.gesture = n}
       IN IF called = {} THEN dispatchEvent(s, type, n + 1)
          ELSE dispatchEvent(callHandler(s, (CHOOSE l \in called : TRUE).handler),
                             type, n + 1)

\* the gestures that have a listener of that type on the window
Listening(type) ==
  {l.handler.gesture : l \in {x \in pointer.listeners : x.type = type}}

InitPointer == /\ HistoryIdle
               /\ ZIdle
               /\ AppIdle
               /\ FnIdle
               /\ call = NoCall

PointerUnchanged ==
  UNCHANGED <<recording, stateHistory, redoStack, zElements, zIndices,
              zResult, appVars, args, result, globalSceneState>>

Buttons == {"MAIN", "WHEEL", "SECONDARY"}

CanvasMouseDown ==
  /\ pointer.gestures < MaxGestures
  /\ \E button \in Buttons, isText \in BOOLEAN :
       pointer' = onMouseDownListeners(pointer, button, isText)
  /\ call' = [NoCall EXCEPT !.op = "mouseDown", !.arg = pointer.lastMouseUp]
  /\ PointerUnchanged

WindowMouseUp ==
  /\ pointer' = dispatchEvent(pointer, "mouseup", 1)
  /\ call' = [NoCall EXCEPT !.op = "mouseUp", !.arg = Listening("mouseup")]
  /\ PointerUnchanged

WindowMouseMove ==
  /\ pointer' = dispatchEvent(pointer, "mousemove", 1)
  /\ call' = [NoCall EXCEPT !.op = "mouseMove",
                            !.arg = Listening("mousemove")]
  /\ PointerUnchanged

\* onUnload, added when the App was mounted, then the teardown of a panning
WindowBlur ==
  /\ pointer' = dispatchEvent([pointer EXCEPT !.isHoldingSpace = FALSE],
                              "blur", 1)
  /\ call' = [NoCall EXCEPT !.op = "blur", !.arg = Listening("blur")]
  /\ PointerUnchanged

KeyDownSpace ==
  /\ pointer' = IF ~ pointer.isHoldingMouseButton
                THEN [pointer EXCEPT !.isHoldingSpace = TRUE]
                ELSE pointer
  /\ call' = [NoCall EXCEPT !.op = "keyDown"]
  /\ PointerUnchanged

KeyUpSpace ==
  /\ pointer' = [pointer EXCEPT !.isHoldingSpace = FALSE]
  /\ call' = [NoCall EXCEPT !.op = "keyUp"]
  /\ PointerUnchanged

NextPointer == \/ CanvasMouseDown
               \/ WindowMouseUp
               \/ WindowMouseMove
               \/ WindowBlur
               \/ KeyDownSpace
               \/ KeyUpSpace

SpecPointer == InitPointer /\ [][NextPointer]_vars

\* the gestures that have a listener on the window
Registered == {l.handler.gesture : l \in pointer.listeners}

\* C32: a pointer-down that arrives while the previous gesture (drawing,
\* moving, resizing or panning) has not had its pointer-up first runs that
\* gesture's pointer-up handler, so that at any time the move and up
\* listeners of at most one gesture are on the window and at most one gesture
\* is in progress: the one lastMouseUp belongs to.
C32_OneGesture ==
  /\ Cardinality(Registered) <= 1
  /\ Registered = IF pointer.lastMouseUp = NoHandler THEN {}
                  ELSE {pointer.lastMouseUp.gesture}
  /\ (call.op = "mouseDown" /\ call.arg # NoHandler)
       => call.arg.gesture \notin Registered
  /\ pointer.isPanning
       => /\ pointer.lastMouseUp # NoHandler
          /\ pointer.lastMouseUp.fn = "teardown"

C32_Witness ==
  /\ call.op = "mouseDown"
  /\ call.arg = Handler("onMouseUp", 1)
  /\ pointer.lastMouseUp = Handler("teardown", 2)
  /\ Registered = {2}

====
